---------------------------- MODULE Spec2Model ----------------------------
(***************************************************************************)
(* The business network of app/network_model.py (class BusinessNetwork)   *)
(* driven through the logic layer of app/logic.py.                        *)
(*                                                                         *)
(* Ids are strings, built as the code builds them (parent.N, base_K,      *)
(* parent_subSTAMP_original).  A float is modelled by the whole number it  *)
(* holds (1000.0 is 1000), criticality by its value in thousandths.        *)
(* A Python dict is a function plus, where the code depends on it, the     *)
(* insertion order of its keys.                                            *)
(***************************************************************************)
EXTENDS Integers, Sequences, FiniteSets, TLC

VARIABLES
    node_keys,                \* keys of self.nodes in insertion order
    nodes,                    \* self.nodes: id -> node record
    graph,                    \* self.graph: id -> sequence of <<child, capacity>>
    min_children_threshold,   \* self.min_children_threshold
    max_depth,                \* self.max_depth
    file,                     \* data/network.json: what the file holds, or NoFile
    last,                     \* the last logic-layer call and what it returned
    steps,                    \* number of calls made so far
    saving                    \* the save in progress: its position, its temporary file, its backup;
                              \* with several requests in flight, the position of each;
                              \* for a recompute taken step by step, its locals

vars == <<node_keys, nodes, graph, min_children_threshold, max_depth, file, last, steps, saving>>

-----------------------------------------------------------------------------
(* Bounds of the model *)

MaxSteps == 3
MaxNodes == 4

-----------------------------------------------------------------------------
(* Values of the program *)

None == "<None>"

\* What a path of the data directory holds: nothing, the complete JSON text of
\* a document, or a text that is cut short and does not parse.
NoFile == [kind |-> "absent"]
json_dump(data) == [kind |-> "json", data |-> data]
Truncated == [kind |-> "truncated"]

\* A JSON value that is no object (a number, a string, null): the code can
\* call no dict method on it.
JsonScalar == [scalar |-> None]
isinstance_dict(v) == "scalar" \notin DOMAIN v

DEFAULT_NODE_VALUE == 1000
DEFAULT_THRESHOLD == 2

Max(a, b) == IF a >= b THEN a ELSE b

Range(s) == {s[i] : i \in 1..Len(s)}

\* dict.get(k, d)
Get(f, k, d) == IF k \in DOMAIN f THEN f[k] ELSE d

\* d[k] = v
Put(f, k, v) == [x \in (DOMAIN f) \cup {k} |-> IF x = k THEN v ELSE f[x]]

\* del d[k]
Del(f, k) == [x \in (DOMAIN f) \ {k} |-> f[x]]

EmptyMap == [x \in {} |-> 0]

\* d.setdefault(k, v)
setdefault(d, k, v) ==
    IF k \in DOMAIN d THEN d ELSE [f \in (DOMAIN d) \cup {k} |-> IF f = k THEN v ELSE d[f]]

\* int(raw) for the raw values the callers send; int raises ValueError for the
\* others.  A JSON number with a fraction is a float, which int truncates.
IntegerStrings == {"0", "1", "2", "3"}
FractionalNumbers == {"2.7"}
int(raw) ==
    CASE raw = "0" -> 0
      [] raw = "1" -> 1
      [] raw = "2" -> 2
      [] raw = "3" -> 3
      [] raw = "2.7" -> 2

\* float(raw) for the raw values the callers send: the number, or no number at all
\* (float raises ValueError).
NumericStrings == {"-300", "1.0", "2"}
float(raw) ==
    CASE raw = "-300" -> -300
      [] raw = "1.0"  -> 1
      [] raw = "2"    -> 2

is_float(raw) == raw \in NumericStrings

-----------------------------------------------------------------------------
(* BusinessNetwork: reads *)

\* The network as one value: what a method reads and what it leaves behind.
Network(k, n, g, t, d) ==
    [keys |-> k, nodes |-> n, graph |-> g, threshold |-> t, max_depth |-> d]

EmptyNetwork == Network(<<>>, EmptyMap, EmptyMap, DEFAULT_THRESHOLD, 0)

get_direct_children(net, node_id) ==
    LET edges == Get(net.graph, node_id, <<>>)
    IN  [i \in 1..Len(edges) |-> edges[i][1]]

RECURSIVE descendants_loop(_, _, _)
descendants_loop(net, queue, descendants) ==
    IF queue = <<>> THEN descendants
    ELSE LET current_node_id == Head(queue)
         IN  IF current_node_id \in DOMAIN net.nodes /\ current_node_id \notin descendants
             THEN LET found == descendants \cup {current_node_id}
                      more == SelectSeq(get_direct_children(net, current_node_id),
                                        LAMBDA c : c \notin found)
                  IN  descendants_loop(net, Tail(queue) \o more, found)
             ELSE descendants_loop(net, Tail(queue), descendants)

\* get_all_descendants ending at the direct children.
get_all_descendants_direct(net, node_id) ==
    IF node_id \notin DOMAIN net.nodes THEN {}
    ELSE Range(get_direct_children(net, node_id)) \cap DOMAIN net.nodes

get_all_descendants(net, node_id) ==
    IF node_id \notin DOMAIN net.nodes THEN {}
    ELSE descendants_loop(net, get_direct_children(net, node_id), {})

-----------------------------------------------------------------------------
(* BusinessNetwork: metric calculation *)

\* The valid parents of a node: those of its parents list that are nodes.
valid_parents_of(nds, node_id) ==
    SelectSeq(nds[node_id].parents, LAMBDA p : p \in DOMAIN nds)

\* The '_current_depth_calculation' entries the node records hold: a record has
\* the key or has it not (dict.get gives None for a key that is not there).
has_memo(node) == "_current_depth_calculation" \in DOMAIN node

stored_memo(nds) ==
    [k \in {n \in DOMAIN nds : has_memo(nds[n])} |-> nds[k]._current_depth_calculation]

\* node.pop('_current_depth_calculation', None)
pop_memo(node) == [f \in (DOMAIN node) \ {"_current_depth_calculation"} |-> node[f]]

\* _calculate_depth and its loop over the parents.  memo is the
\* '_current_depth_calculation' entries there are (absent = None); visited is
\* the path of the recursion.  The result is the depth and the memo left behind.
RECURSIVE _calculate_depth(_, _, _, _)
RECURSIVE parents_depth(_, _, _, _, _)

parents_depth(nds, parents, visited, memo, max_parent_depth) ==
    IF parents = <<>> THEN [max |-> max_parent_depth, memo |-> memo]
    ELSE LET parent_id == Head(parents)
             r == IF parent_id \in DOMAIN memo
                  THEN [depth |-> memo[parent_id], memo |-> memo]
                  ELSE _calculate_depth(nds, parent_id, visited, memo)
         IN  parents_depth(nds, Tail(parents), visited, r.memo,
                           Max(max_parent_depth, r.depth))

_calculate_depth(nds, node_id, visited, memo) ==
    IF node_id \notin DOMAIN nds THEN [depth |-> 0, memo |-> memo]
    ELSE LET valid_parents == valid_parents_of(nds, node_id)
         IN  IF valid_parents = <<>> THEN [depth |-> 0, memo |-> memo]
             ELSE IF node_id \in visited
             THEN [depth |-> Cardinality(DOMAIN nds) + 1, memo |-> memo]
             ELSE LET r == parents_depth(nds, valid_parents, visited \cup {node_id}, memo, -1)
                      depth == IF r.max >= 0 THEN r.max + 1 ELSE 0
                  IN  [depth |-> depth, memo |-> Put(r.memo, node_id, depth)]

\* The topological pass of _update_metrics.  s holds its locals: the queue
\* nodes_to_process, in_degree, node_depths, processed_nodes, and the nodes and
\* max_depth it writes.
RECURSIVE kahn_children(_, _, _)
kahn_children(s, children, current_depth) ==
    IF children = <<>> THEN s
    ELSE LET child_id == Head(children)
         IN  IF child_id \in DOMAIN s.in_degree
             THEN LET deg == s.in_degree[child_id] - 1
                      s1 == [s EXCEPT !.in_degree[child_id] = deg,
                                      !.node_depths = Put(@, child_id,
                                            Max(Get(@, child_id, 0), current_depth + 1)),
                                      !.queue = IF deg = 0 THEN Append(@, child_id) ELSE @]
                  IN  kahn_children(s1, Tail(children), current_depth)
             ELSE kahn_children(s, Tail(children), current_depth)

RECURSIVE kahn_loop(_, _)
kahn_loop(s, net) ==
    IF s.queue = <<>> THEN s
    ELSE LET node_id == Head(s.queue)
         IN  IF node_id \in s.processed
             THEN kahn_loop([s EXCEPT !.queue = Tail(@)], net)
             ELSE LET current_depth == Get(s.node_depths, node_id, 0)
                      s1 == [s EXCEPT !.queue = Tail(@),
                                      !.processed = @ \cup {node_id},
                                      !.nodes[node_id].depth = current_depth,
                                      !.max_depth = Max(@, current_depth)]
                  IN  kahn_loop(kahn_children(s1, get_direct_children(net, node_id),
                                              current_depth), net)

\* One turn of the fallback of _update_metrics: the node's depth from
\* _calculate_depth over the entries the other records hold, after which every
\* record's entry is dropped.
fallback_node(s, node_id) ==
    LET calculated_depth ==
            _calculate_depth(s.nodes, node_id, {}, stored_memo(s.nodes)).depth
    IN  [s EXCEPT !.nodes = [k \in DOMAIN s.nodes |->
                                pop_memo(IF k = node_id
                                         THEN [s.nodes[k] EXCEPT !.depth = calculated_depth]
                                         ELSE s.nodes[k])],
                  !.max_depth = Max(@, calculated_depth)]

\* The fallback of _update_metrics for the nodes the topological pass left
\* out, in the order the set is iterated; a node whose record holds an entry
\* is passed over.
RECURSIVE fallback_loop(_, _)
fallback_loop(s, unprocessed) ==
    IF unprocessed = <<>> THEN s
    ELSE IF has_memo(s.nodes[Head(unprocessed)])
    THEN fallback_loop(s, Tail(unprocessed))
    ELSE fallback_loop(fallback_node(s, Head(unprocessed)), Tail(unprocessed))

RECURSIVE sum_child_values(_, _)
sum_child_values(nds, child_ids) ==
    IF child_ids = <<>> THEN 0
    ELSE (IF Head(child_ids) \in DOMAIN nds THEN nds[Head(child_ids)].value ELSE 0)
         + sum_child_values(nds, Tail(child_ids))

\* _calculate_profit without the floor at 0.
_calculate_profit_unfloored(net, node_id) ==
    IF node_id \notin DOMAIN net.nodes THEN 0
    ELSE sum_child_values(net.nodes, get_direct_children(net, node_id))

\* round(max(0.0, profit), 2); the values are whole numbers, which round(x, 2) keeps.
_calculate_profit(net, node_id) ==
    IF node_id \notin DOMAIN net.nodes THEN 0
    ELSE Max(0, sum_child_values(net.nodes, get_direct_children(net, node_id)))

_calculate_suggested_child_count(net, node_id) == net.threshold

\* The nearest whole number to a / b, for a >= 0 and b > 0, as round() gives
\* it: a tie goes to the even neighbour.  (The float of a tie is the tie itself
\* for the thresholds below 10 and the depths below 375, where this was
\* compared with round(); 0.3125 rounds to 0.312.)
RoundDiv(a, b) ==
    LET q == a \div b
        r == a % b
    IN  IF 2 * r < b THEN q
        ELSE IF 2 * r > b THEN q + 1
        ELSE IF q % 2 = 0 THEN q ELSE q + 1

\* In thousandths: round(need_ratio * depth_factor, 3) with
\* need_ratio = min(1, needed / max(1, threshold)) and
\* depth_factor = 1 / (1 + 0.04 * depth) = 25 / (25 + depth).
_calculate_criticality(net, node_id) ==
    IF node_id \notin DOMAIN net.nodes THEN 0
    ELSE LET node == net.nodes[node_id]
             needed_children == Max(0, net.threshold - node.children_count)
             t == Max(1, net.threshold)
             capped == IF needed_children > t THEN t ELSE needed_children
         IN  IF needed_children <= 0 THEN 0
             ELSE LET c == RoundDiv(1000 * capped * 25, t * (25 + node.depth))
                  IN  Max(0, IF c > 1000 THEN 1000 ELSE c)

\* _update_metrics, pass by pass.  Each pass takes the network the one before
\* it left.

\* The parents lists cleaned of ids that are no nodes.
clean_parents(net) ==
    [net EXCEPT !.nodes = [k \in DOMAIN net.nodes |->
                             [net.nodes[k] EXCEPT !.parents = valid_parents_of(net.nodes, k)]]]

\* The locals of the topological pass before its loop: the parentless nodes
\* queued in the order of self.nodes, at depth 0.
kahn_start(net) ==
    LET in_degree == [k \in DOMAIN net.nodes |-> Len(net.nodes[k].parents)]
        roots == SelectSeq(net.keys, LAMBDA k : Len(net.nodes[k].parents) = 0)
    IN  [queue |-> roots, in_degree |-> in_degree,
         node_depths |-> [k \in Range(roots) |-> 0],
         processed |-> {}, nodes |-> net.nodes, max_depth |-> 0]

\* After the loop: the nodes it did not process get their depth from the
\* fallback.  order lists the ids in the order the set of unprocessed ids
\* yields them.
depth_result(s, net, order) ==
    IF Cardinality(s.processed) # Cardinality(DOMAIN net.nodes)
    THEN fallback_loop(s, SelectSeq(order, LAMBDA k : k \notin s.processed))
    ELSE s

with_depths(s, net) == [net EXCEPT !.nodes = s.nodes, !.max_depth = s.max_depth]

depth_pass(net, order) ==
    with_depths(depth_result(kahn_loop(kahn_start(net), net), net, order), net)

counts_pass(net) ==
    [net EXCEPT !.nodes = [k \in DOMAIN net.nodes |->
        [net.nodes[k] EXCEPT
            !.children_count = Len(get_direct_children(net, k)),
            !.total_children = Cardinality(get_all_descendants(net, k))]]]

profit_pass(net) ==
    [net EXCEPT !.nodes = [k \in DOMAIN net.nodes |->
        [net.nodes[k] EXCEPT !.profit = _calculate_profit(net, k)]]]

\* needed_for counting one child too many.
needed_for_one_less(suggested, children_count) == Max(0, suggested - children_count - 1)

needed_for(suggested, children_count) == Max(0, suggested - children_count)

needs_pass(net) ==
    [net EXCEPT !.nodes = [k \in DOMAIN net.nodes |->
        [net.nodes[k] EXCEPT
            !.suggested_child_count = _calculate_suggested_child_count(net, k),
            !.needed_children =
                needed_for(_calculate_suggested_child_count(net, k), net.nodes[k].children_count),
            !.is_chokepoint =
                needed_for(_calculate_suggested_child_count(net, k), net.nodes[k].children_count) > 0]]]

criticality_pass(net) ==
    [net EXCEPT !.nodes = [k \in DOMAIN net.nodes |->
        [net.nodes[k] EXCEPT !.criticality = _calculate_criticality(net, k)]]]

\* _update_metrics with the order in which the set of unprocessed ids is iterated.
update_metrics_in(net, order) ==
    IF net.keys = <<>> THEN [net EXCEPT !.max_depth = 0]
    ELSE criticality_pass(needs_pass(profit_pass(counts_pass(
             depth_pass(clean_parents(net), order)))))

\* Where no record holds a '_current_depth_calculation' entry every order gives
\* the same depths, and the order of the keys stands for all of them.
_update_metrics(net) == update_metrics_in(net, net.keys)

-----------------------------------------------------------------------------
(* BusinessNetwork: node creation and removal *)

\* The loop of _generate_unique_id: the first base_N, N from counter up, that is no key.
RECURSIVE unique_from(_, _, _)
unique_from(base_id, counter, keys) ==
    LET final_id == base_id \o "_" \o ToString(counter)
    IN  IF final_id \in keys THEN unique_from(base_id, counter + 1, keys) ELSE final_id

\* _generate_unique_id with the counter started at 0.
_generate_unique_id_from_zero(base_id, keys) ==
    IF base_id \in keys THEN unique_from(base_id, 0, keys) ELSE base_id

_generate_unique_id(base_id, keys) ==
    IF base_id \in keys THEN unique_from(base_id, 1, keys) ELSE base_id

\* The record add_node and add_subtree_from_data store for a new node.
new_node(final_id, node_value, threshold) ==
    [id |-> final_id, parents |-> <<>>, value |-> node_value,
     depth |-> 0, children_count |-> 0, total_children |-> 0,
     is_chokepoint |-> FALSE, suggested_child_count |-> threshold,
     needed_children |-> 0, profit |-> 0, criticality |-> 0]

\* What a method call leaves: whether it returned (ok) or raised (error says
\* what), the network after it, and what it returned.
Returned(net, ret) == [ok |-> TRUE, error |-> "", net |-> net, ret |-> ret]
Raised(net, error) == [ok |-> FALSE, error |-> error, net |-> net, ret |-> None]

\* self.nodes[final_id] = record; self.graph gets final_id if it has no entry.
store_node(net, final_id, node_value) ==
    [net EXCEPT !.keys = IF final_id \in DOMAIN net.nodes THEN @ ELSE Append(@, final_id),
                !.nodes = Put(@, final_id, new_node(final_id, node_value, net.threshold)),
                !.graph = IF final_id \in DOMAIN @ THEN @ ELSE Put(@, final_id, <<>>)]

\* link without the append to the child's parents.
link_graph_only(net, parent_id, child_id, capacity) ==
    [net EXCEPT !.graph = Put(@, parent_id, Append(Get(@, parent_id, <<>>), <<child_id, capacity>>))]

\* self.graph[parent_id].append((child_id, capacity)); child.parents.append(parent_id)
link(net, parent_id, child_id, capacity) ==
    [net EXCEPT !.graph = Put(@, parent_id, Append(Get(@, parent_id, <<>>), <<child_id, capacity>>)),
                !.nodes[child_id].parents = Append(@, parent_id)]

\* add_node_base_id numbering the children from the parent's out-degree.
add_node_base_id_from_degree(net, parent_id, node_id) ==
    IF node_id = None \/ node_id = ""
    THEN IF net.keys = <<>> THEN "root"
         ELSE parent_id \o "." \o ToString(Len(Get(net.graph, parent_id, <<>>)))
    ELSE node_id

\* The id add_node tries first: "root", parent.N, or the id the caller asked for.
add_node_base_id(net, parent_id, node_id) ==
    IF node_id = None \/ node_id = ""
    THEN IF net.keys = <<>> THEN "root"
         ELSE parent_id \o "." \o ToString(Len(Get(net.graph, parent_id, <<>>)) + 1)
    ELSE node_id

\* add_node without the checks that refuse a second root.
add_node_second_root(net, parent_id, node_id, raw_value) ==
    LET final_id == IF (node_id = None \/ node_id = "") /\ net.keys = <<>> THEN "root"
                    ELSE _generate_unique_id(add_node_base_id(net, parent_id, node_id),
                                             DOMAIN net.nodes)
    IN  IF parent_id # None /\ parent_id \notin DOMAIN net.nodes
        THEN Raised(net, "Parent node does not exist")
        ELSE IF ~(raw_value = None \/ raw_value = "" \/ is_float(raw_value))
        THEN Raised(net, "Invalid format for 'value'")
        ELSE LET node_value == IF raw_value = None \/ raw_value = ""
                               THEN DEFAULT_NODE_VALUE ELSE float(raw_value)
                 stored == store_node(net, final_id, node_value)
             IN  Returned(_update_metrics(IF parent_id # None
                                          THEN link(stored, parent_id, final_id, 1)
                                          ELSE stored), final_id)

add_node(net, parent_id, node_id, raw_value) ==
    LET is_root_node == net.keys = <<>>
        is_explicit_root == parent_id = None /\ ~is_root_node
        base_id == add_node_base_id(net, parent_id, node_id)
        final_id == IF (node_id = None \/ node_id = "") /\ is_root_node THEN "root"
                    ELSE _generate_unique_id(base_id, DOMAIN net.nodes)
    IN  IF is_explicit_root
        THEN Raised(net, "Cannot add multiple root nodes")
        ELSE IF parent_id # None /\ parent_id \notin DOMAIN net.nodes
        THEN Raised(net, "Parent node does not exist")
        ELSE IF (parent_id = None \/ parent_id = "") /\ ~is_root_node
        THEN Raised(net, "Parent ID is required")
        ELSE IF ~(raw_value = None \/ raw_value = "" \/ is_float(raw_value))
        THEN Raised(net, "Invalid format for 'value'")
        ELSE LET node_value == IF raw_value = None \/ raw_value = ""
                               THEN DEFAULT_NODE_VALUE ELSE float(raw_value)
                 stored == store_node(net, final_id, node_value)
                 linked == IF parent_id # None THEN link(stored, parent_id, final_id, 1)
                           ELSE stored
             IN  Returned(_update_metrics(linked), final_id)

\* remove_node's loop over the parents, leaving their edge lists as they are.
unlink_nothing(graph_, parent_ids, node_id) == graph_

RECURSIVE unlink_from_parents(_, _, _)
unlink_from_parents(graph_, parent_ids, node_id) ==
    IF parent_ids = <<>> THEN graph_
    ELSE LET parent_id == Head(parent_ids)
             g == IF parent_id \in DOMAIN graph_
                  THEN [graph_ EXCEPT ![parent_id] = SelectSeq(@, LAMBDA e : e[1] # node_id)]
                  ELSE graph_
         IN  unlink_from_parents(g, Tail(parent_ids), node_id)

\* remove_node without the check for children.
remove_node_with_children(net, node_id) ==
    IF node_id \notin DOMAIN net.nodes
    THEN Raised(net, "Node not found")
    ELSE Returned(_update_metrics(
            [net EXCEPT !.keys = SelectSeq(@, LAMBDA k : k # node_id),
                        !.nodes = Del(@, node_id),
                        !.graph = Del(unlink_from_parents(@, net.nodes[node_id].parents, node_id),
                                      node_id)]), TRUE)

remove_node(net, node_id) ==
    IF node_id \notin DOMAIN net.nodes
    THEN Raised(net, "Node not found")
    ELSE IF node_id \in DOMAIN net.graph /\ net.graph[node_id] # <<>>
    THEN Raised(net, "Cannot remove node with children")
    ELSE LET unlinked == unlink_from_parents(net.graph, net.nodes[node_id].parents, node_id)
             removed == [net EXCEPT !.keys = SelectSeq(@, LAMBDA k : k # node_id),
                                    !.nodes = Del(@, node_id),
                                    !.graph = IF node_id \in DOMAIN unlinked
                                              THEN Del(unlinked, node_id) ELSE unlinked]
         IN  Returned(_update_metrics(removed), TRUE)

-----------------------------------------------------------------------------
(* BusinessNetwork: subtree import *)

\* subtree_data: has_nodes and has_graph say whether the "nodes" and "graph"
\* keys are there; nodes maps a fragment id to its node data, graph a fragment
\* id to its list of <<target, capacity>>, the capacity as the caller sent it.
Subtree(n, g) == [has_nodes |-> TRUE, has_graph |-> TRUE, nodes |-> n, graph |-> g]

nodes_with_parents_in_subtree(sd) ==
    {t \in DOMAIN sd.nodes :
        \E src \in DOMAIN sd.graph : \E i \in 1..Len(sd.graph[src]) : sd.graph[src][i][1] = t}

subtree_root_set(sd) == (DOMAIN sd.nodes) \ nodes_with_parents_in_subtree(sd)

\* The orders in which a Python set of ids may be iterated.
Orders(S) == {o \in [1..Cardinality(S) -> S] : Range(o) = S}

\* The properties of the fragment's node data that the copy keeps besides the
\* value: all but the calculated ones the code lists.
copy_properties(net, new_id, node_data) ==
    IF has_memo(node_data)
    THEN [net EXCEPT !.nodes[new_id] =
             [f \in (DOMAIN @) \cup {"_current_depth_calculation"} |->
                 IF f = "_current_depth_calculation"
                 THEN node_data._current_depth_calculation ELSE @[f]]]
    ELSE net

\* The first loop of add_subtree_from_data: the traversal from the local roots
\* that copies the nodes.  st holds the network and the loop's locals.
RECURSIVE import_nodes(_, _, _, _, _)
import_nodes(st, sd, parent_id, prefix, subtree_roots) ==
    IF st.queue = <<>> THEN st
    ELSE LET original_id == Head(st.queue)
         IN  IF original_id \in st.processed \/ original_id \notin DOMAIN sd.nodes
             THEN import_nodes([st EXCEPT !.queue = Tail(@)], sd, parent_id, prefix, subtree_roots)
             ELSE LET raw_value == sd.nodes[original_id].value
                      new_id == _generate_unique_id(prefix \o original_id, DOMAIN st.net.nodes)
                      node_value == IF raw_value = None \/ raw_value = "" \/ ~is_float(raw_value)
                                    THEN DEFAULT_NODE_VALUE ELSE float(raw_value)
                      stored == copy_properties(store_node(st.net, new_id, node_value),
                                                new_id, sd.nodes[original_id])
                      attached == IF original_id \in Range(subtree_roots)
                                  THEN link(stored, parent_id, new_id, 1) ELSE stored
                      processed == st.processed \cup {original_id}
                      edges == Get(sd.graph, original_id, <<>>)
                      targets == [i \in 1..Len(edges) |-> edges[i][1]]
                      children == SelectSeq(targets,
                                      LAMBDA c : c \in DOMAIN sd.nodes /\ c \notin processed)
                  IN  import_nodes([net |-> attached,
                                    queue |-> Tail(st.queue) \o children,
                                    processed |-> processed,
                                    id_mapping |-> Put(st.id_mapping, original_id, new_id),
                                    order |-> Append(st.order, original_id),
                                    added_node_ids |-> Append(st.added_node_ids, new_id)],
                                   sd, parent_id, prefix, subtree_roots)

\* The edges of the first copied node only.
mapped_edges_of_first(sd, order) ==
    IF order = <<>> THEN <<>>
    ELSE LET edges == Get(sd.graph, Head(order), <<>>)
         IN  [i \in 1..Len(edges) |->
                 [src |-> Head(order), target |-> edges[i][1], capacity |-> edges[i][2]]]

\* The fragment's edges in the order the second loop visits them: by source in
\* the order of id_mapping, then as listed.
RECURSIVE mapped_edges(_, _)
mapped_edges(sd, order) ==
    IF order = <<>> THEN <<>>
    ELSE LET original_src == Head(order)
             edges == Get(sd.graph, original_src, <<>>)
         IN  [i \in 1..Len(edges) |->
                 [src |-> original_src, target |-> edges[i][1], capacity |-> edges[i][2]]]
             \o mapped_edges(sd, Tail(order))

\* The second loop: the edges between the copied nodes.  float(capacity) raises
\* for a capacity that is no number, and the loop ends there.
RECURSIVE connect_edges(_, _, _)
connect_edges(net, id_mapping, edges) ==
    IF edges = <<>> THEN Returned(net, None)
    ELSE LET e == Head(edges)
         IN  IF e.target \notin DOMAIN id_mapping
             THEN connect_edges(net, id_mapping, Tail(edges))
             ELSE IF e.capacity # None /\ ~is_float(e.capacity)
             THEN Raised(net, "could not convert string to float")
             ELSE LET new_src == id_mapping[e.src]
                      new_target == id_mapping[e.target]
                      capacity == IF e.capacity = None THEN 1 ELSE float(e.capacity)
                      g == Put(net.graph, new_src,
                               Append(Get(net.graph, new_src, <<>>), <<new_target, capacity>>))
                      n == IF new_target \in DOMAIN net.nodes
                              /\ new_src \notin Range(net.nodes[new_target].parents)
                           THEN [net.nodes EXCEPT ![new_target].parents = Append(@, new_src)]
                           ELSE net.nodes
                  IN  connect_edges([net EXCEPT !.graph = g, !.nodes = n], id_mapping, Tail(edges))

\* stamp is the clock's part of the prefix; subtree_roots is the list of local
\* roots in the order the set of fragment ids yields them.  Besides the list
\* the call returns, the result tells the id mapping, the order of the copies
\* and how many times the call ran _update_metrics.
add_subtree_from_data(net, parent_id, sd, stamp, subtree_roots) ==
    IF parent_id \notin DOMAIN net.nodes
    THEN Raised(net, "Parent node not found")
    ELSE IF ~sd.has_nodes \/ ~sd.has_graph
    THEN Raised(net, "Invalid subtree data format")
    ELSE IF DOMAIN sd.nodes = {}
    THEN Returned(net, [added_node_ids |-> <<>>, id_mapping |-> EmptyMap, order |-> <<>>,
                        recomputes |-> 0])
    ELSE IF subtree_roots = <<>>
    THEN Raised(net, "Subtree seems to have a cycle or no clear root(s)")
    ELSE LET prefix == parent_id \o "_sub" \o stamp \o "_"
             copied == import_nodes([net |-> net, queue |-> subtree_roots, processed |-> {},
                                     id_mapping |-> EmptyMap, order |-> <<>>,
                                     added_node_ids |-> <<>>],
                                    sd, parent_id, prefix, subtree_roots)
             connected == connect_edges(copied.net, copied.id_mapping,
                                        mapped_edges(sd, copied.order))
         IN  IF connected.ok
             THEN Returned(_update_metrics(connected.net),
                           [added_node_ids |-> copied.added_node_ids,
                            id_mapping |-> copied.id_mapping, order |-> copied.order,
                            recomputes |-> 1])
             ELSE connected

-----------------------------------------------------------------------------
(* BusinessNetwork: persistence *)

\* get_network_data: the document save writes (the nodes in insertion order).
get_network_data(net) ==
    [keys |-> net.keys, nodes |-> net.nodes, graph |-> net.graph,
     settings |-> [min_children_threshold |-> net.threshold, max_depth |-> net.max_depth]]

\* Whether the write and the rename of a save go through.  In Spec they do;
\* FaultySpec has every save go through or raise, and SaveSpec takes a save
\* statement by statement.
SaveOutcomes == {TRUE}

\* save with a rename that tears the target when it fails.
save_tearing(net, current_file, io_ok) ==
    IF io_ok THEN json_dump(get_network_data(net)) ELSE Truncated

\* save, start to end: the content of the file after the call; io_ok says
\* whether the write and the rename went through (if not, save raises and the
\* file is as before).
save(net, current_file, io_ok) ==
    IF io_ok THEN json_dump(get_network_data(net)) ELSE current_file

\* The defaults load gives a node entry for the fields it lacks.
load_node(node_id, node_data, threshold) ==
    setdefault(setdefault(setdefault(setdefault(setdefault(setdefault(
    setdefault(setdefault(setdefault(setdefault(setdefault(node_data,
        "id", node_id), "parents", <<>>), "value", DEFAULT_NODE_VALUE),
        "depth", 0), "children_count", 0), "total_children", 0), "profit", 0),
        "is_chokepoint", FALSE), "suggested_child_count", threshold),
        "needed_children", 0), "criticality", 0)

\* The edges load keeps of a source's list: those whose target is a node.  A
\* document holds capacities as numbers, which float() leaves as they are.
\* load_edges giving every edge the default capacity.
load_edges_default_capacity(nds, edges) ==
    [i \in 1..Len(SelectSeq(edges, LAMBDA edge : edge[1] \in DOMAIN nds)) |->
        <<SelectSeq(edges, LAMBDA edge : edge[1] \in DOMAIN nds)[i][1], 1>>]

load_edges(nds, edges) == SelectSeq(edges, LAMBDA edge : edge[1] \in DOMAIN nds)

\* The try block of load (lines 513-565): json.load raises JSONDecodeError on a
\* text that is no document; data.get, settings.get, loaded_nodes.items,
\* node_data.setdefault and loaded_graph.items raise AttributeError on a value
\* that is no dict; otherwise the network of the document, recomputed.
load_try(content) ==
    IF content.kind # "json" THEN Raised(EmptyNetwork, "JSONDecodeError")
    ELSE LET data == content.data
         IN  IF \/ ~isinstance_dict(data)
                \/ ~isinstance_dict(data.settings)
                \/ ~isinstance_dict(data.nodes)
                \/ \E k \in DOMAIN data.nodes : ~isinstance_dict(data.nodes[k])
                \/ ~isinstance_dict(data.graph)
             THEN Raised(EmptyNetwork, "AttributeError")
             ELSE LET threshold == Max(1, Get(data.settings, "min_children_threshold",
                                              DEFAULT_THRESHOLD))
                      nds == [k \in DOMAIN data.nodes |->
                                 load_node(k, data.nodes[k], threshold)]
                      g == [k \in DOMAIN nds |->
                               IF k \in DOMAIN data.graph
                               THEN load_edges(nds, data.graph[k]) ELSE <<>>]
                  IN  Returned(_update_metrics(Network(data.keys, nds, g, threshold, 0)), None)

\* load with a handler for JSONDecodeError alone.
load_result_decode_only(content) ==
    IF content.kind = "absent" THEN Returned(EmptyNetwork, None)
    ELSE IF load_try(content).ok \/ load_try(content).error # "JSONDecodeError"
    THEN load_try(content)
    ELSE Returned(EmptyNetwork, None)

\* load: a file that is not there gives a new network (509-511), and so does
\* every exception of the try block (566-572).
load_result(content) ==
    IF content.kind = "absent" THEN Returned(EmptyNetwork, None)
    ELSE IF load_try(content).ok THEN load_try(content)
    ELSE Returned(EmptyNetwork, None)

\* The network load returns.
load(content) == load_result(content).net

-----------------------------------------------------------------------------
(* logic.py: the calls of the transport layer *)

\* The module-level network of logic.py.
network == Network(node_keys, nodes, graph, min_children_threshold, max_depth)

set_network(net) ==
    /\ node_keys' = net.keys
    /\ nodes' = net.nodes
    /\ graph' = net.graph
    /\ min_children_threshold' = net.threshold
    /\ max_depth' = net.max_depth

\* Between the calls no save is in progress.
Idle == [pc |-> "idle"]

EmptySubtree == Subtree(EmptyMap, EmptyMap)

\* A call and its response, every field at its default.
NoCall ==
    [op |-> "none", parent_id |-> None, node_id |-> None, value |-> None,
     min_children_threshold |-> None,
     node_ids |-> <<>>, subtree_data |-> EmptySubtree, stamp |-> "",
     status |-> "none", error |-> "", id |-> None,
     added_nodes |-> <<>>, id_mapping |-> EmptyMap, order |-> <<>>,
     deleted_count |-> 0, failed_nodes |-> EmptyMap, saved |-> FALSE,
     ret |-> EmptyMap, children |-> <<>>, descendants |-> {}, suggestions |-> <<>>,
     recomputes |-> 0]

\* logic.add_node(data)
AddNode(parent_id, node_id, raw_value, io_ok) ==
    LET r == add_node(network, parent_id, IF node_id = "" THEN None ELSE node_id,
                      IF raw_value = "" THEN None ELSE raw_value)
        call == [NoCall EXCEPT !.op = "add_node", !.parent_id = parent_id,
                               !.node_id = node_id, !.value = raw_value]
    IN  /\ steps < MaxSteps
        /\ Len(r.net.keys) <= MaxNodes
        /\ steps' = steps + 1
        /\ saving' = saving
        /\ set_network(r.net)
        /\ IF ~r.ok
           THEN /\ file' = file
                /\ last' = [call EXCEPT !.status = "error", !.error = r.error]
           ELSE /\ file' = save(r.net, file, io_ok)
                /\ last' = IF io_ok
                           THEN [call EXCEPT !.status = "success", !.id = r.ret, !.saved = TRUE]
                           ELSE [call EXCEPT !.status = "error",
                                             !.error = "An unexpected server error occurred"]

\* logic.remove_node(node_id)
RemoveNode(node_id, io_ok) ==
    LET r == remove_node(network, node_id)
        call == [NoCall EXCEPT !.op = "remove_node", !.node_id = node_id]
    IN  /\ steps < MaxSteps
        /\ steps' = steps + 1
        /\ saving' = saving
        /\ set_network(r.net)
        /\ IF ~r.ok
           THEN /\ file' = file
                /\ last' = [call EXCEPT !.status = "error", !.error = r.error]
           ELSE /\ file' = save(r.net, file, io_ok)
                /\ last' = IF io_ok
                           THEN [call EXCEPT !.status = "success", !.saved = TRUE]
                           ELSE [call EXCEPT !.status = "error",
                                             !.error = "An unexpected server error occurred"]

\* The upfront check without the check for children.
RECURSIVE bulk_validate_existence(_, _, _)
bulk_validate_existence(net, node_ids, failed_nodes) ==
    IF node_ids = <<>> THEN failed_nodes
    ELSE IF Head(node_ids) \notin DOMAIN net.nodes
    THEN bulk_validate_existence(net, Tail(node_ids),
                                 Put(failed_nodes, Head(node_ids), "Node not found"))
    ELSE bulk_validate_existence(net, Tail(node_ids), failed_nodes)

\* The upfront check ending at the first id that fails it.
RECURSIVE bulk_validate_first(_, _, _)
bulk_validate_first(net, node_ids, failed_nodes) ==
    IF node_ids = <<>> THEN failed_nodes
    ELSE IF Head(node_ids) \notin DOMAIN net.nodes
    THEN Put(failed_nodes, Head(node_ids), "Node not found")
    ELSE IF Get(net.graph, Head(node_ids), <<>>) # <<>>
    THEN Put(failed_nodes, Head(node_ids), "Node has children")
    ELSE bulk_validate_first(net, Tail(node_ids), failed_nodes)

\* The upfront check of bulk_remove_nodes: the reason for each id that fails it.
RECURSIVE bulk_validate(_, _, _)
bulk_validate(net, node_ids, failed_nodes) ==
    IF node_ids = <<>> THEN failed_nodes
    ELSE LET node_id == Head(node_ids)
         IN  IF node_id \notin DOMAIN net.nodes
             THEN bulk_validate(net, Tail(node_ids), Put(failed_nodes, node_id, "Node not found"))
             ELSE IF Get(net.graph, node_id, <<>>) # <<>>
             THEN bulk_validate(net, Tail(node_ids), Put(failed_nodes, node_id, "Node has children"))
             ELSE bulk_validate(net, Tail(node_ids), failed_nodes)

\* The deletion loop counting every attempt as a deletion.
RECURSIVE bulk_delete_counting_attempts(_, _, _, _)
bulk_delete_counting_attempts(net, node_ids, deleted_count, failed_nodes) ==
    IF node_ids = <<>>
    THEN [net |-> net, deleted_count |-> deleted_count, failed_nodes |-> failed_nodes]
    ELSE LET r == remove_node(net, Head(node_ids))
         IN  IF r.ok
             THEN bulk_delete_counting_attempts(r.net, Tail(node_ids), deleted_count + 1,
                                                failed_nodes)
             ELSE bulk_delete_counting_attempts(r.net, Tail(node_ids), deleted_count + 1,
                                                Put(failed_nodes, Head(node_ids), r.error))

\* The deletion loop of bulk_remove_nodes.
RECURSIVE bulk_delete(_, _, _, _)
bulk_delete(net, node_ids, deleted_count, failed_nodes) ==
    IF node_ids = <<>>
    THEN [net |-> net, deleted_count |-> deleted_count, failed_nodes |-> failed_nodes]
    ELSE LET r == remove_node(net, Head(node_ids))
         IN  IF r.ok
             THEN bulk_delete(r.net, Tail(node_ids), deleted_count + 1, failed_nodes)
             ELSE bulk_delete(r.net, Tail(node_ids), deleted_count,
                              Put(failed_nodes, Head(node_ids), r.error))

\* logic.bulk_remove_nodes(node_ids); io_ok_again is the outcome of the save
\* the handler tries once more after the first one raised.
BulkRemoveNodes(node_ids, io_ok, io_ok_again) ==
    LET call == [NoCall EXCEPT !.op = "bulk_remove_nodes", !.node_ids = node_ids]
        failed_upfront == bulk_validate(network, node_ids, EmptyMap)
        d == bulk_delete(network, node_ids, 0, EmptyMap)
    IN  /\ steps < MaxSteps
        /\ steps' = steps + 1
        /\ saving' = saving
        /\ IF node_ids = <<>>
           THEN /\ set_network(network)
                /\ file' = file
                /\ last' = [call EXCEPT !.status = "error",
                                        !.error = "No node IDs provided for deletion"]
           ELSE IF DOMAIN failed_upfront # {}
           THEN /\ set_network(network)
                /\ file' = file
                /\ last' = [call EXCEPT !.status = "error",
                                        !.error = "Cannot perform bulk delete",
                                        !.deleted_count = 0,
                                        !.failed_nodes = failed_upfront]
           ELSE /\ set_network(d.net)
                /\ file' = IF io_ok THEN save(d.net, file, io_ok)
                           ELSE save(d.net, file, io_ok_again)
                /\ last' = IF ~io_ok
                           THEN [call EXCEPT !.status = "error",
                                             !.error = "An unexpected server error occurred",
                                             !.saved = io_ok_again,
                                             !.deleted_count = d.deleted_count,
                                             !.failed_nodes = d.failed_nodes]
                           ELSE IF DOMAIN d.failed_nodes = {}
                           THEN [call EXCEPT !.status = "success", !.saved = TRUE,
                                             !.deleted_count = d.deleted_count]
                           ELSE [call EXCEPT !.status = "error", !.saved = TRUE,
                                             !.error = "Completed with errors",
                                             !.deleted_count = d.deleted_count,
                                             !.failed_nodes = d.failed_nodes]

\* logic.add_subtree(parent_id, subtree_data)
AddSubtree(parent_id, subtree_data, stamp, subtree_roots, io_ok) ==
    LET r == add_subtree_from_data(network, parent_id, subtree_data, stamp, subtree_roots)
        call == [NoCall EXCEPT !.op = "add_subtree", !.parent_id = parent_id,
                               !.subtree_data = subtree_data, !.stamp = stamp]
    IN  /\ steps < MaxSteps
        /\ Len(r.net.keys) <= MaxNodes
        /\ steps' = steps + 1
        /\ saving' = saving
        /\ set_network(r.net)
        /\ IF ~r.ok
           THEN /\ file' = file
                /\ last' = [call EXCEPT !.status = "error", !.error = r.error]
           ELSE /\ file' = save(r.net, file, io_ok)
                /\ last' = IF io_ok
                           THEN [call EXCEPT !.status = "success", !.saved = TRUE,
                                             !.added_nodes = r.ret.added_node_ids,
                                             !.id_mapping = r.ret.id_mapping,
                                             !.order = r.ret.order,
                                             !.recomputes = r.ret.recomputes]
                           ELSE [call EXCEPT !.status = "error",
                                             !.error = "An unexpected server error occurred",
                                             !.recomputes = r.ret.recomputes]

\* logic.update_settings(data); raw_threshold is data["min_children_threshold"].
UpdateSettings(raw_threshold, io_ok) ==
    LET call == [NoCall EXCEPT !.op = "update_settings",
                               !.min_children_threshold = raw_threshold]
        updated == [network EXCEPT !.threshold = int(raw_threshold)]
        recomputed == _update_metrics(updated)
    IN  /\ steps < MaxSteps
        /\ steps' = steps + 1
        /\ saving' = saving
        /\ IF raw_threshold \notin IntegerStrings \cup FractionalNumbers
           THEN /\ set_network(network)
                /\ file' = file
                /\ last' = [call EXCEPT !.status = "error",
                               !.error = "Invalid settings: min_children_threshold: Must be a valid integer"]
           ELSE IF int(raw_threshold) < 1
           THEN /\ set_network(network)
                /\ file' = file
                /\ last' = [call EXCEPT !.status = "error",
                               !.error = "Invalid settings: min_children_threshold: Must be at least 1"]
           ELSE IF int(raw_threshold) = min_children_threshold
           THEN /\ set_network(network)
                /\ file' = file
                /\ last' = [call EXCEPT !.status = "success"]
           ELSE /\ set_network(recomputed)
                /\ file' = save(recomputed, file, io_ok)
                /\ last' = IF io_ok
                           THEN [call EXCEPT !.status = "success", !.saved = TRUE]
                           ELSE [call EXCEPT !.status = "error",
                                             !.error = "An unexpected server error occurred"]

\* logic.initialize_network(), run when the module is loaded: the process starts
\* again on the file there is.  load raises nothing, so the branch that builds
\* and saves a new network is never taken.
InitializeNetwork ==
    /\ steps < MaxSteps
    /\ steps' = steps + 1
    /\ saving' = saving
    /\ set_network(load(file))
    /\ file' = file
    /\ last' = [NoCall EXCEPT !.op = "initialize_network", !.status = "success"]

-----------------------------------------------------------------------------
(* The callers' inputs *)

Ghost == "ghost"

\* Ids a caller may name: the nodes there are, and one that is no node.
KnownIds == (DOMAIN nodes) \cup {Ghost}

ParentInputs == {None} \cup KnownIds
RequestedIds == {None, "root"}
ValueInputs == {None, "-300", "abc"}
Stamps == {"00000001"}
SettingsInputs == {"1", "0", "abc"}

BulkInputs == UNION {[1..n -> KnownIds] : n \in 0..2}

v0 == [value |-> None]

\* The fragments a caller may send.
Fragments ==
    { \* no "nodes" key
      [has_nodes |-> FALSE, has_graph |-> TRUE, nodes |-> EmptyMap, graph |-> EmptyMap],
      \* an empty node map
      Subtree(EmptyMap, EmptyMap),
      \* one node
      Subtree(("a" :> v0), EmptyMap),
      \* two local roots
      Subtree(("a" :> v0) @@ ("b" :> [value |-> "-300"]), EmptyMap),
      \* a chain a -> b
      Subtree(("a" :> v0) @@ ("b" :> v0), ("a" :> << <<"b", "2">> >>)),
      \* a chain whose capacity is no number
      Subtree(("a" :> v0) @@ ("b" :> v0), ("a" :> << <<"b", "x">> >>)),
      \* a cycle without a local root
      Subtree(("a" :> v0) @@ ("b" :> v0),
              ("a" :> << <<"b", None>> >>) @@ ("b" :> << <<"a", None>> >>)),
      \* a self-loop below the local root
      Subtree(("a" :> v0) @@ ("b" :> v0),
              ("a" :> << <<"b", None>> >>) @@ ("b" :> << <<"b", None>> >>)),
      \* an edge to the only node listed under an id that is no node of the fragment
      Subtree(("a" :> v0), ("z" :> << <<"a", None>> >>)),
      \* b listed twice under a, and again under c
      Subtree(("a" :> v0) @@ ("b" :> v0) @@ ("c" :> v0),
              ("a" :> << <<"b", None>>, <<"b", None>>, <<"c", None>> >>)
              @@ ("c" :> << <<"b", None>> >>)) }

-----------------------------------------------------------------------------
(* The specification *)

\* logic.initialize_network with no file there: the network load gives.
Init ==
    /\ node_keys = load(NoFile).keys
    /\ nodes = load(NoFile).nodes
    /\ graph = load(NoFile).graph
    /\ min_children_threshold = load(NoFile).threshold
    /\ max_depth = load(NoFile).max_depth
    /\ file = NoFile
    /\ last = NoCall
    /\ steps = 0
    /\ saving = Idle

Next ==
    \/ \E parent_id \in ParentInputs, node_id \in RequestedIds,
          raw_value \in ValueInputs, io_ok \in SaveOutcomes :
          AddNode(parent_id, node_id, raw_value, io_ok)
    \/ \E node_id \in KnownIds, io_ok \in SaveOutcomes :
          RemoveNode(node_id, io_ok)
    \/ \E node_ids \in BulkInputs, io_ok \in SaveOutcomes :
          BulkRemoveNodes(node_ids, io_ok, io_ok)
    \/ \E parent_id \in KnownIds, subtree_data \in Fragments, stamp \in Stamps,
          io_ok \in SaveOutcomes :
          \E subtree_roots \in Orders(subtree_root_set(subtree_data)) :
             AddSubtree(parent_id, subtree_data, stamp, subtree_roots, io_ok)
    \/ \E raw_threshold \in SettingsInputs, io_ok \in SaveOutcomes :
          UpdateSettings(raw_threshold, io_ok)
    \/ InitializeNetwork

Spec == Init /\ [][Next]_vars

-----------------------------------------------------------------------------
(* Vocabulary of the properties *)

HasEdge(p, c) == p \in DOMAIN graph /\ \E i \in 1..Len(graph[p]) : graph[p][i][1] = c

HasParent(c, p) == c \in DOMAIN nodes /\ p \in Range(nodes[c].parents)

EdgeTargets == UNION {{graph[p][i][1] : i \in 1..Len(graph[p])} : p \in DOMAIN graph}

ParentEntries == UNION {Range(nodes[c].parents) : c \in DOMAIN nodes}

EdgeSources == {p \in DOMAIN graph : graph[p] # <<>>}

MentionedIds == (DOMAIN nodes) \cup (DOMAIN graph) \cup EdgeTargets \cup ParentEntries

Parentless == {n \in DOMAIN nodes : nodes[n].parents = <<>>}

\* The ids reached from the ids of S by following parents entries, S included.
RECURSIVE UpFrom(_)
UpFrom(S) ==
    LET more == UNION {Range(nodes[n].parents) : n \in S \cap DOMAIN nodes}
    IN  IF more \subseteq S THEN S ELSE UpFrom(S \cup more)

Ancestors(n) == UpFrom(Range(nodes[n].parents))

Acyclic == \A n \in DOMAIN nodes : n \notin Ancestors(n)

NetworkUnchanged == UNCHANGED <<node_keys, nodes, graph, min_children_threshold, max_depth>>

-----------------------------------------------------------------------------
(* C1..C10 *)

\* C1: in every reachable state, whatever calls succeeded or failed, graph[p]
\* holds an edge to c if and only if nodes[c].parents contains p.
C1_GraphAgreesWithParents ==
    \A p \in MentionedIds, c \in MentionedIds : HasEdge(p, c) <=> HasParent(c, p)

\* A node with two parents, one of them listing it twice, stands in the network.
C1_Witness ==
    \E c \in DOMAIN nodes :
        /\ Len(nodes[c].parents) = 2
        /\ \E p \in DOMAIN graph : \E i, j \in 1..Len(graph[p]) :
              i # j /\ graph[p][i][1] = c /\ graph[p][j][1] = c

\* C2: the network is empty or has exactly one node whose parents list is empty.
C2_SingleParentlessNode ==
    nodes = EmptyMap \/ Cardinality(Parentless) = 1

\* C3: every parents entry, and every source and target of every edge, is a node.
C3_NoDanglingReference ==
    /\ ParentEntries \subseteq DOMAIN nodes
    /\ EdgeSources \subseteq DOMAIN nodes
    /\ EdgeTargets \subseteq DOMAIN nodes

\* A removal has just succeeded and left nodes and edges behind.
C3_Witness ==
    /\ last.op \in {"remove_node", "bulk_remove_nodes"}
    /\ last.status = "success"
    /\ EdgeTargets # {}

\* The greatest depth field among the ids of S (a non-empty set of nodes).
MaxDepthOf(S) == CHOOSE d \in {nodes[p].depth : p \in S} : \A q \in S : nodes[q].depth <= d

DepthRecurrence ==
    \A n \in DOMAIN nodes :
        nodes[n].depth = IF nodes[n].parents = <<>> THEN 0
                         ELSE 1 + MaxDepthOf(Range(nodes[n].parents))

\* C4: after every successful add_node, remove_node or add_subtree_from_data
\* that leaves an acyclic parent relation, a parentless node has depth 0 and
\* every other node has depth 1 + the greatest depth among its parents.
C4_DepthIsOnePlusMaxParentDepth ==
    (/\ last.op \in {"add_node", "remove_node", "add_subtree"}
     /\ last.status = "success"
     /\ ParentEntries \subseteq DOMAIN nodes
     /\ Acyclic)
    => DepthRecurrence

Suffixed(X, k) == X \o "_" \o ToString(k)

\* assigned is the id the suffixing rule gives candidate X among the keys.
MintedFrom(X, assigned, keys) ==
    IF X \notin keys THEN assigned = X
    ELSE \E k \in 1..(Cardinality(keys) + 1) :
            /\ assigned = Suffixed(X, k)
            /\ assigned \notin keys
            /\ \A j \in 1..(k - 1) : Suffixed(X, j) \in keys

\* The keys the step added to self.nodes, in the order it added them.
Created == SubSeq(node_keys', Len(node_keys) + 1, Len(node_keys'))

\* The i-th created id is minted from the i-th candidate among the keys there
\* were before it.
MintedInTurn(candidates) ==
    /\ Len(candidates) = Len(Created)
    /\ \A i \in 1..Len(Created) :
          MintedFrom(candidates[i], Created[i],
                     (DOMAIN nodes) \cup {Created[j] : j \in 1..(i - 1)})

\* The orders in which ids of S may be taken, n of them, none twice.
Picks(S, n) == {o \in [1..n -> S] : \A i, j \in 1..n : i # j => o[i] # o[j]}

KeysDistinct(keys, nds) ==
    /\ Range(keys) = DOMAIN nds
    /\ Cardinality(Range(keys)) = Len(keys)
    /\ \A k \in DOMAIN nds : nds[k].id = k

\* C5: a node created with candidate id X gets X if X is no key yet, else X_k
\* for the least k >= 1 with X_k no key; no record there was is overwritten and
\* the keys stay pairwise distinct.
C5_IdsMintedBySuffixRule ==
    [][ (last'.op \in {"add_node", "add_subtree"} /\ Len(node_keys') > Len(node_keys))
        => /\ SubSeq(node_keys', 1, Len(node_keys)) = node_keys
           /\ KeysDistinct(node_keys', nodes')
           /\ \A k \in DOMAIN nodes :
                 /\ nodes'[k].value = nodes[k].value
                 /\ nodes'[k].parents = nodes[k].parents
           /\ last'.op = "add_node" =>
                 /\ last'.id = Created[1]
                 /\ MintedInTurn(<<add_node_base_id(network, last'.parent_id, last'.node_id)>>)
           /\ last'.op = "add_subtree" =>
                 \E o \in Picks(DOMAIN last'.subtree_data.nodes, Len(Created)) :
                    /\ last'.status = "success" => o = last'.order /\ Created = last'.added_nodes
                    /\ MintedInTurn([i \in 1..Len(o) |->
                          last'.parent_id \o "_sub" \o last'.stamp \o "_" \o o[i]])
      ]_vars

\* Two ids have been minted from one candidate: X_1 and then X_2.
C5_Witness ==
    \E X \in DOMAIN nodes :
        /\ Suffixed(X, 1) \in DOMAIN nodes
        /\ last.status = "success"
        /\ last.id = Suffixed(X, 2)

HasChildren(node_id) == Get(graph, node_id, <<>>) # <<>>

Deletable(node_id) == node_id \in DOMAIN nodes /\ ~HasChildren(node_id)

\* C6: remove_node succeeds only for a node without outgoing edge; for an id
\* that is no node or has an outgoing edge it fails, and then the network is
\* as before and nothing is saved.
C6_RemoveOnlyLeaves ==
    [][ last'.op = "remove_node"
        => /\ last'.status = "success" => Deletable(last'.node_id)
           /\ ~Deletable(last'.node_id) =>
                 /\ last'.status = "error"
                 /\ last'.error \in {"Node not found", "Cannot remove node with children"}
                 /\ NetworkUnchanged
                 /\ file' = file
                 /\ ~last'.saved
      ]_vars

\* The removal of a node with children has just been refused.
C6_Witness ==
    /\ last.op = "remove_node"
    /\ last.status = "error"
    /\ last.error = "Cannot remove node with children"
    /\ HasChildren(last.node_id)

NonNumeric(raw) == ~(raw = None \/ raw = "" \/ is_float(raw))

\* C7: add_node for a parent that is no node, for no parent in a non-empty
\* network, or for a value that is no number fails with a validation error,
\* and then the network is as before and nothing is saved.
C7_RejectedAddNodeChangesNothing ==
    [][ (/\ last'.op = "add_node"
         /\ \/ last'.parent_id # None /\ last'.parent_id \notin DOMAIN nodes
            \/ last'.parent_id = None /\ nodes # EmptyMap
            \/ NonNumeric(last'.value))
        => /\ last'.status = "error"
           /\ last'.error \in {"Cannot add multiple root nodes", "Parent node does not exist",
                               "Parent ID is required", "Invalid format for 'value'"}
           /\ NetworkUnchanged
           /\ file' = file
           /\ ~last'.saved
      ]_vars

\* A value that is no number has just been refused for a child of a node.
C7_Witness ==
    /\ last.op = "add_node"
    /\ last.status = "error"
    /\ last.error = "Invalid format for 'value'"
    /\ last.parent_id \in DOMAIN nodes

\* C8: an add_subtree_from_data that fails leaves the nodes, the graph and the
\* metrics as they were.
C8_FailedImportChangesNothing ==
    [][ (last'.op = "add_subtree" /\ last'.status = "error") => NetworkUnchanged ]_vars

FailsValidation(node_ids) == {id \in Range(node_ids) : ~Deletable(id)}

\* C9: a bulk_remove_nodes naming an id that is no node or has an outgoing edge
\* removes nothing: network and file are as before, deleted_count is 0 and a
\* reason per failing id is returned.
C9_BulkValidatesBeforeRemoving ==
    [][ (last'.op = "bulk_remove_nodes" /\ FailsValidation(last'.node_ids) # {})
        => /\ NetworkUnchanged
           /\ file' = file
           /\ ~last'.saved
           /\ last'.status = "error"
           /\ last'.deleted_count = 0
           /\ \A id \in FailsValidation(last'.node_ids) :
                 /\ id \in DOMAIN last'.failed_nodes
                 /\ last'.failed_nodes[id] =
                       IF id \in DOMAIN nodes THEN "Node has children" ELSE "Node not found"
      ]_vars

\* A bulk removal naming a deletable node first and a node with children second
\* has just been refused.
C9_Witness ==
    /\ last.op = "bulk_remove_nodes"
    /\ last.error = "Cannot perform bulk delete"
    /\ Len(last.node_ids) = 2
    /\ Deletable(last.node_ids[1])
    /\ last.node_ids[2] \in DOMAIN nodes /\ HasChildren(last.node_ids[2])

\* C10 as stated: the report of a refused bulk_remove_nodes has an entry for
\* every requested id, the deletable ones included.
C10_ReportNamesEveryRequestedId ==
    (last.op = "bulk_remove_nodes" /\ last.error = "Cannot perform bulk delete")
    => Range(last.node_ids) \subseteq DOMAIN last.failed_nodes

\* C10 as the code has it: the report of a refused bulk_remove_nodes has an
\* entry for exactly the requested ids that fail validation.
C10_ReportNamesTheFailingIds ==
    [][ (last'.op = "bulk_remove_nodes" /\ last'.error = "Cannot perform bulk delete")
        => DOMAIN last'.failed_nodes = FailsValidation(last'.node_ids)
      ]_vars

\* A bulk removal of a node with children and a deletable node has just been
\* refused.
C10_Witness ==
    /\ last.op = "bulk_remove_nodes"
    /\ last.error = "Cannot perform bulk delete"
    /\ \E a, b \in Range(last.node_ids) :
          /\ a \in DOMAIN nodes /\ HasChildren(a)
          /\ Deletable(b)

-----------------------------------------------------------------------------
(* C11..C20 *)

\* The network a recompute leaves when it runs on the present one.
AfterRecompute == _update_metrics(network)

\* The sum of the values of the targets of a list of edges, one term per edge.
RECURSIVE EdgeValueSum(_, _)
EdgeValueSum(nds, edges) ==
    IF edges = <<>> THEN 0
    ELSE nds[Head(edges)[1]].value + EdgeValueSum(nds, Tail(edges))

ChildValueSum(n) == EdgeValueSum(nodes, graph[n])

CompletedCall ==
    /\ last.op \in {"add_node", "remove_node", "bulk_remove_nodes", "add_subtree",
                    "update_settings", "initialize_network"}
    /\ last.status = "success"

\* C12: after every completed add_node, remove_node, bulk_remove_nodes,
\* add_subtree_from_data, update_settings and load, every node has
\* suggested_child_count = threshold, children_count = its number of outgoing
\* edges, needed_children = max(0, threshold - children_count) and
\* is_chokepoint = (needed_children > 0).
C12_NeedsFollowThreshold ==
    CompletedCall =>
        \A n \in DOMAIN nodes :
            /\ nodes[n].suggested_child_count = min_children_threshold
            /\ nodes[n].children_count = Len(graph[n])
            /\ nodes[n].needed_children =
                  Max(0, min_children_threshold - nodes[n].children_count)
            /\ nodes[n].is_chokepoint = (nodes[n].needed_children > 0)

\* The nodes reached from the ids of S by following edges, S included.
RECURSIVE DownFrom(_)
DownFrom(S) ==
    LET more == UNION {{graph[n][i][1] : i \in 1..Len(graph[n])} : n \in S \cap DOMAIN graph}
    IN  IF more \subseteq S THEN S ELSE DownFrom(S \cup more)

\* The nodes reached from n by one or more edges.
Reachable(n) == DownFrom({graph[n][i][1] : i \in 1..Len(graph[n])}) \cap DOMAIN nodes

\* C13: after a recompute total_children(n) is the number of distinct nodes
\* reached from n by one or more outgoing edges.
C13_TotalChildrenCountsReachableNodes ==
    LET after == AfterRecompute
    IN  \A n \in DOMAIN nodes :
            after.nodes[n].total_children = Cardinality(Reachable(n))

\* A recompute has just run on a network where a node with two parents is
\* reached from one node along two paths.
C13_Witness ==
    /\ last.op = "add_subtree"
    /\ last.status = "success"
    /\ \E n \in DOMAIN nodes, c \in DOMAIN nodes :
          /\ Len(nodes[c].parents) = 2
          /\ Range(nodes[c].parents) \subseteq Reachable(n)
          /\ nodes[n].total_children = Cardinality(Reachable(n))

\* The network that saving the present one and loading the file gives.
SavedAndLoaded == load(save(network, file, TRUE))

\* C15: saving a reachable network and loading the file gives the same node
\* ids, parents and values, the same edges with their capacities, the same
\* threshold, and the metrics and max_depth a recompute gives.
C15_LoadOfSaveIsTheSameNetwork ==
    LET loaded == SavedAndLoaded
    IN  /\ loaded.keys = node_keys
        /\ \A n \in DOMAIN nodes :
              /\ loaded.nodes[n].id = nodes[n].id
              /\ loaded.nodes[n].parents = nodes[n].parents
              /\ loaded.nodes[n].value = nodes[n].value
        /\ loaded.graph = graph
        /\ loaded.threshold = min_children_threshold
        /\ loaded = AfterRecompute

\* The process has started again on the file a save wrote, which holds an edge
\* of capacity 2.
C15_Witness ==
    /\ last.op = "initialize_network"
    /\ file.kind = "json"
    /\ network = load(file)
    /\ \E n \in DOMAIN graph : \E i \in 1..Len(graph[n]) : graph[n][i][2] = 2

\* The fragment nodes with no parent that is itself a node of the fragment.
LocalRoots(sd) ==
    {t \in DOMAIN sd.nodes :
        ~\E src \in (DOMAIN sd.graph) \cap (DOMAIN sd.nodes) :
            \E i \in 1..Len(sd.graph[src]) : sd.graph[src][i][1] = t}

\* The fragment nodes reached from the ids of S by the fragment's edges, S included.
RECURSIVE FragmentFrom(_, _)
FragmentFrom(sd, S) ==
    LET more == UNION {{sd.graph[n][i][1] : i \in 1..Len(sd.graph[n])} :
                          n \in S \cap DOMAIN sd.graph} \cap DOMAIN sd.nodes
    IN  IF more \subseteq S THEN S ELSE FragmentFrom(sd, S \cup more)

\* C16: a successful add_subtree_from_data returns one new id per imported
\* fragment node, the ids pairwise distinct and none a key before the call; the
\* nodes there were keep their ids and records' ids, and children_count of the
\* parent grows by the number of local roots.
C16_ImportMintsFreshIds ==
    [][ (last'.op = "add_subtree" /\ last'.status = "success")
        => LET sd == last'.subtree_data
               added == Range(last'.added_nodes)
               parent_id == last'.parent_id
           IN  /\ Len(last'.added_nodes) = Cardinality(FragmentFrom(sd, subtree_root_set(sd)))
               /\ Cardinality(added) = Len(last'.added_nodes)
               /\ added \cap DOMAIN nodes = {}
               /\ DOMAIN nodes' = (DOMAIN nodes) \cup added
               /\ SubSeq(node_keys', 1, Len(node_keys)) = node_keys
               /\ \A k \in DOMAIN nodes : nodes'[k].id = nodes[k].id
               /\ nodes'[parent_id].children_count =
                     nodes[parent_id].children_count + Cardinality(subtree_root_set(sd))
      ]_vars

\* C17: a fragment node is attached as a direct child of the parent exactly
\* when no edge whose source is a node of the fragment targets it, and the
\* import fails for lack of roots only when every fragment node has such a
\* parent.
C17_LocalRootsHaveNoParentInFragment ==
    [][ (last'.op = "add_subtree" /\ last'.subtree_data.has_nodes /\ last'.subtree_data.has_graph
         /\ last'.parent_id \in DOMAIN nodes /\ DOMAIN last'.subtree_data.nodes # {})
        => LET sd == last'.subtree_data
           IN  /\ last'.error = "Subtree seems to have a cycle or no clear root(s)"
                     <=> LocalRoots(sd) = {}
               /\ last'.status = "success" =>
                     \A t \in DOMAIN last'.id_mapping :
                        (last'.parent_id \in Range(nodes'[last'.id_mapping[t]].parents))
                            <=> t \in LocalRoots(sd)
      ]_vars

-----------------------------------------------------------------------------
(* _update_metrics on the networks load hands it *)

\* The networks load builds from a file before its recompute (lines 522-561):
\* the nodes a, b and c with the parents lists the file gives, the graph the
\* parents lists give with at most one edge more or one edge less, and at most
\* one record holding a '_current_depth_calculation' entry, which load takes
\* over like every other field of a record.
RecomputeIds == <<"a", "b", "c">>

RecomputePairs == Range(RecomputeIds) \X Range(RecomputeIds)

StoredDepths == {7}

\* The ids of S in the order of RecomputeIds.
InKeyOrder(S) == SelectSeq(RecomputeIds, LAMBDA k : k \in S)

RecomputeNode(k, parent_pairs, memo_at) ==
    LET node == [new_node(k, DEFAULT_NODE_VALUE, DEFAULT_THRESHOLD) EXCEPT
                    !.parents = InKeyOrder({p \in Range(RecomputeIds) : <<p, k>> \in parent_pairs})]
    IN  IF k \in DOMAIN memo_at
        THEN node @@ [_current_depth_calculation |-> memo_at[k]]
        ELSE node

RecomputeEdges(k, edge_pairs) ==
    [i \in 1..Len(InKeyOrder({c \in Range(RecomputeIds) : <<k, c>> \in edge_pairs})) |->
        <<InKeyOrder({c \in Range(RecomputeIds) : <<k, c>> \in edge_pairs})[i], 1>>]

RecomputeNetwork(parent_pairs, edge_pairs, memo_at) ==
    Network(RecomputeIds,
            [k \in Range(RecomputeIds) |-> RecomputeNode(k, parent_pairs, memo_at)],
            [k \in Range(RecomputeIds) |-> RecomputeEdges(k, edge_pairs)],
            DEFAULT_THRESHOLD, 0)

\* The graphs that differ from the parents lists in at most one edge.
NearlyAgreeing(parent_pairs) ==
    {parent_pairs} \cup {parent_pairs \ {e} : e \in parent_pairs}
                   \cup {parent_pairs \cup {e} : e \in RecomputePairs}

MemoEntries ==
    {EmptyMap} \cup {(k :> d) : k \in Range(RecomputeIds), d \in StoredDepths}

RecomputeInit ==
    /\ \E parent_pairs \in SUBSET RecomputePairs :
       \E edge_pairs \in NearlyAgreeing(parent_pairs), memo_at \in MemoEntries :
          /\ node_keys = RecomputeNetwork(parent_pairs, edge_pairs, memo_at).keys
          /\ nodes = RecomputeNetwork(parent_pairs, edge_pairs, memo_at).nodes
          /\ graph = RecomputeNetwork(parent_pairs, edge_pairs, memo_at).graph
    /\ min_children_threshold = DEFAULT_THRESHOLD
    /\ max_depth = 0
    /\ file = NoFile
    /\ last = NoCall
    /\ steps = 0
    /\ saving = Idle

\* One call of _update_metrics; order is the order in which the set of the ids
\* the topological pass left out is iterated.
Recompute(order) ==
    /\ set_network(update_metrics_in(network, order))
    /\ last' = [NoCall EXCEPT !.op = "_update_metrics", !.status = "success"]
    /\ file' = file
    /\ steps' = steps
    /\ saving' = saving

RecomputeNext == \E order \in Orders(DOMAIN nodes) : Recompute(order)

RecomputeSpec == RecomputeInit /\ [][RecomputeNext]_vars

\* C14: a recompute that follows a recompute changes no field of no node and
\* not max_depth.
C14_RecomputeIsIdempotent ==
    [][ (last.op = "_update_metrics" /\ last'.op = "_update_metrics")
        => network' = network ]_vars

-----------------------------------------------------------------------------
(* BusinessNetwork.save, step by step *)

\* os.replace(temp_file_path, file_path): the content of the target after the
\* call.  The rename is atomic: the target holds the temporary file's content or
\* what it held.
os_replace_torn(current_file, temp_file, ok) ==
    IF ok THEN temp_file ELSE Truncated

os_replace(current_file, temp_file, ok) ==
    IF ok THEN temp_file ELSE current_file

\* The networks a save is called on.
RootOnly == add_node(EmptyNetwork, None, None, None).net
RootAndChild == add_node(RootOnly, "root", None, "-300").net
RootAndTwo == add_node(RootAndChild, "root", None, None).net

SaveNetworks == {EmptyNetwork, RootOnly, RootAndChild, RootAndTwo}

\* The target before the call: not there, or the snapshot an earlier save wrote.
SavedBefore == {NoFile} \cup {json_dump(get_network_data(net)) : net \in SaveNetworks}

\* The temporary file before the call: not there, or what a save that could
\* not remove it left.
TempBefore == {NoFile, Truncated}

\* The locals of a save: where it is, the target as the call found it, the
\* temporary file, the backup file, the step that raised and whether os.remove
\* of the temporary file raised.
SaveLocals(position, before, temp_file) ==
    [pc |-> position, before |-> before, temp |-> temp_file, backup |-> NoFile,
     failed_at |-> "", remove_failed |-> FALSE,
     timestamp |-> "", earlier |-> <<>>, backup_dir |-> <<>>]

\* Line 478: datetime.now().strftime("%Y%m%d_%H%M%S_%f") is the local wall
\* clock read to the microsecond. Nothing makes two readings differ: the
\* clock can be set back, and two saves can read the same microsecond.
BackupStamps == {"t1", "t2"}

\* The backup files the data directory holds before a save, by their time
\* stamp: none, or one that an earlier save wrote at "t1".
EarlierBackups ==
    {<<>>, [t \in {"t1"} |-> json_dump(get_network_data(EmptyNetwork))]}

\* Line 481 as it acts on the directory: shutil.copy2 creates the file of that
\* name or writes over the one there is.
copy2(dir, name, content) ==
    [n \in DOMAIN dir \cup {name} |-> IF n = name THEN content ELSE dir[n]]

SaveInit ==
    /\ \E net \in SaveNetworks :
          /\ node_keys = net.keys
          /\ nodes = net.nodes
          /\ graph = net.graph
          /\ min_children_threshold = net.threshold
          /\ max_depth = net.max_depth
    /\ file \in SavedBefore
    /\ \E temp_file \in TempBefore, dir \in EarlierBackups :
          saving = [SaveLocals("backup", file, temp_file)
                       EXCEPT !.earlier = dir, !.backup_dir = dir]
    /\ last = NoCall
    /\ steps = 0

SaveUnchanged ==
    /\ node_keys' = node_keys
    /\ nodes' = nodes
    /\ graph' = graph
    /\ min_children_threshold' = min_children_threshold
    /\ max_depth' = max_depth
    /\ steps' = steps

\* Lines 476-482: where the target is there it is copied to a backup file
\* named after the time stamp; a copy that raises is reported and passed over,
\* and may have left nothing or a part of the copy under that name.
SaveBackup(ok) ==
    /\ saving.pc = "backup"
    /\ IF file.kind = "absent"
       THEN saving' = [saving EXCEPT !.pc = "open"]
       ELSE \E stamp \in BackupStamps, torn \in BOOLEAN :
               saving' = [saving EXCEPT
                   !.pc = "open",
                   !.timestamp = stamp,
                   !.backup = IF ok THEN file ELSE NoFile,
                   !.backup_dir = IF ok THEN copy2(@, stamp, file)
                                  ELSE IF torn THEN copy2(@, stamp, Truncated)
                                  ELSE @]
    /\ file' = file
    /\ last' = last
    /\ SaveUnchanged

\* Line 487: open(temp_file_path, 'w') creates the temporary file, or empties
\* the one there is, or raises.
SaveOpenTemp(ok) ==
    /\ saving.pc = "open"
    /\ saving' = IF ok THEN [saving EXCEPT !.pc = "dump", !.temp = Truncated]
                 ELSE [saving EXCEPT !.pc = "except", !.failed_at = "open"]
    /\ file' = file
    /\ last' = last
    /\ SaveUnchanged

\* Line 488 and the end of the with block: json.dump writes the document; a
\* write that raises leaves part of it.
SaveDump(ok) ==
    /\ saving.pc = "dump"
    /\ saving' = IF ok
                 THEN [saving EXCEPT !.pc = "replace",
                                     !.temp = json_dump(get_network_data(network))]
                 ELSE [saving EXCEPT !.pc = "except", !.failed_at = "dump"]
    /\ file' = file
    /\ last' = last
    /\ SaveUnchanged

\* Line 490: os.replace; after it save returns.
SaveReplace(ok) ==
    /\ saving.pc = "replace"
    /\ file' = os_replace(file, saving.temp, ok)
    /\ saving' = IF ok THEN [saving EXCEPT !.pc = "returned", !.temp = NoFile]
                 ELSE [saving EXCEPT !.pc = "except", !.failed_at = "replace"]
    /\ last' = IF ok THEN [NoCall EXCEPT !.op = "save", !.status = "success", !.saved = TRUE]
               ELSE last
    /\ SaveUnchanged

\* Lines 492-499: the temporary file, if there is one, is removed; an os.remove
\* that raises OSError is reported and passed over; the exception is raised again.
SaveCleanup(ok) ==
    /\ saving.pc = "except"
    /\ saving' = IF saving.temp.kind = "absent" THEN [saving EXCEPT !.pc = "raised"]
                 ELSE IF ok THEN [saving EXCEPT !.pc = "raised", !.temp = NoFile]
                 ELSE [saving EXCEPT !.pc = "raised", !.remove_failed = TRUE]
    /\ file' = file
    /\ last' = [NoCall EXCEPT !.op = "save", !.status = "error"]
    /\ SaveUnchanged

SaveNext ==
    \/ \E ok \in BOOLEAN : SaveBackup(ok)
    \/ \E ok \in BOOLEAN : SaveOpenTemp(ok)
    \/ \E ok \in BOOLEAN : SaveDump(ok)
    \/ \E ok \in BOOLEAN : SaveReplace(ok)
    \/ \E ok \in BOOLEAN : SaveCleanup(ok)

SaveSpec == SaveInit /\ [][SaveNext]_vars

NewSnapshot == json_dump(get_network_data(network))

\* At every step of a save the target is as the call found it (absent, or the
\* whole earlier snapshot) or the whole new snapshot, and a save that returned
\* or raised left what save(net, file, io_ok) says.
TargetIsWhole ==
    /\ file \in {saving.before, NewSnapshot}
    /\ file.kind # "truncated"
    /\ saving.pc = "returned" =>
          /\ file = save(network, saving.before, TRUE)
          /\ saving.temp = NoFile
    /\ saving.pc = "raised" =>
          /\ file = save(network, saving.before, FALSE)
          /\ last.status = "error"

\* C18 as stated: at every step of a save and after any failure the target is
\* absent (if it was), the whole earlier snapshot or the whole new one; after a
\* save that failed the target is as it was, the temporary file is removed and
\* the error is propagated.
C18_FailedSaveRemovesTemp ==
    /\ TargetIsWhole
    /\ saving.pc = "raised" => saving.temp = NoFile

\* C18 as the code has it: the same, the temporary file being removed unless
\* os.remove raises too, when it stays as the failed step left it.
C18_FailedSaveTriesToRemoveTemp ==
    /\ TargetIsWhole
    /\ saving.pc = "raised" =>
          IF saving.remove_failed THEN saving.temp # NoFile ELSE saving.temp = NoFile

\* A save over an earlier snapshot wrote the whole temporary file, os.replace
\* raised, the temporary file was removed and the target is the earlier
\* snapshot.
C18_Witness ==
    /\ saving.pc = "raised"
    /\ saving.failed_at = "replace"
    /\ saving.before.kind = "json"
    /\ saving.before # NewSnapshot
    /\ file = saving.before
    /\ saving.temp = NoFile

-----------------------------------------------------------------------------
(* The calls of logic.py with saves that may fail *)

FaultyFragments ==
    { Subtree(EmptyMap, EmptyMap),
      Subtree(("a" :> v0), EmptyMap),
      Subtree(("a" :> v0) @@ ("b" :> v0), ("a" :> << <<"b", "2">> >>)),
      Subtree(("a" :> v0) @@ ("b" :> v0), ("a" :> << <<"b", "x">> >>)) }

FaultySettings == {"1", "3"}

\* The calls of C19 and the restart, every save of theirs going through or
\* raising.
FaultyNext ==
    \/ \E parent_id \in ParentInputs, io_ok \in BOOLEAN :
          AddNode(parent_id, None, None, io_ok)
    \/ \E node_id \in KnownIds, io_ok \in BOOLEAN :
          RemoveNode(node_id, io_ok)
    \/ \E parent_id \in KnownIds, subtree_data \in FaultyFragments, stamp \in Stamps,
          io_ok \in BOOLEAN :
          \E subtree_roots \in Orders(subtree_root_set(subtree_data)) :
             AddSubtree(parent_id, subtree_data, stamp, subtree_roots, io_ok)
    \/ \E raw_threshold \in FaultySettings, io_ok \in BOOLEAN :
          UpdateSettings(raw_threshold, io_ok)
    \/ InitializeNetwork

FaultySpec == Init /\ [][FaultyNext]_vars

SaveFailed(call) == call.error = "An unexpected server error occurred"

\* What the call of a step did to the network in memory.
MutationKept ==
    CASE last'.op = "add_node" ->
            /\ Len(node_keys') = Len(node_keys) + 1
            /\ SubSeq(node_keys', 1, Len(node_keys)) = node_keys
      [] last'.op = "remove_node" ->
            /\ last'.node_id \in DOMAIN nodes
            /\ DOMAIN nodes' = (DOMAIN nodes) \ {last'.node_id}
      [] last'.op = "add_subtree" ->
            /\ SubSeq(node_keys', 1, Len(node_keys)) = node_keys
            /\ Len(node_keys') - Len(node_keys) =
                  Cardinality(FragmentFrom(last'.subtree_data,
                                           subtree_root_set(last'.subtree_data)))
      [] last'.op = "update_settings" ->
            /\ min_children_threshold' = int(last'.min_children_threshold)
            /\ min_children_threshold' # min_children_threshold
      [] OTHER -> FALSE

-----------------------------------------------------------------------------
(* BusinessNetwork.load on the files there may be *)

\* The "settings" of a document: a threshold, none, a threshold below 1, or a
\* value that is no dict.
LoadSettings ==
    {[min_children_threshold |-> 3], EmptyMap, [min_children_threshold |-> 0],
     [max_depth |-> 7], JsonScalar}

\* The "nodes" of a document with the order of their keys.
LoadNodes ==
    { [keys |-> <<>>, nodes |-> EmptyMap],
      [keys |-> <<"a">>, nodes |-> ("a" :> EmptyMap)],
      [keys |-> <<"a", "b">>,
       nodes |-> ("a" :> [value |-> 5]) @@ ("b" :> [parents |-> <<"a">>, depth |-> 9])],
      [keys |-> <<"b", "a">>,
       nodes |-> ("a" :> [parents |-> <<"b", "ghost">>]) @@ ("b" :> [parents |-> <<"a">>])],
      [keys |-> <<"a">>,
       nodes |-> ("a" :> [parents |-> <<"a">>, depth |-> 9,
                          _current_depth_calculation |-> 7])],
      [keys |-> <<"a", "b">>, nodes |-> ("a" :> EmptyMap) @@ ("b" :> JsonScalar)],
      [keys |-> <<>>, nodes |-> JsonScalar] }

\* The "graph" of a document.
LoadGraphs ==
    { EmptyMap,
      ("a" :> << <<"b", 2>> >>),
      ("a" :> << <<"b", 1>>, <<"ghost", 1>> >>) @@ ("b" :> << <<"a", 1>> >>),
      ("z" :> << <<"a", 1>> >>),
      JsonScalar }

LoadDocuments ==
    {[keys |-> n.keys, nodes |-> n.nodes, graph |-> g, settings |-> st] :
        n \in LoadNodes, g \in LoadGraphs, st \in LoadSettings}

\* The files load may find: none, a text that is no document, a document that
\* is no dict, and the documents above.
LoadFiles ==
    {NoFile, Truncated, json_dump(JsonScalar)} \cup {json_dump(d) : d \in LoadDocuments}

LoadInit ==
    /\ \E net \in {EmptyNetwork, RootAndChild} :
          /\ node_keys = net.keys
          /\ nodes = net.nodes
          /\ graph = net.graph
          /\ min_children_threshold = net.threshold
          /\ max_depth = net.max_depth
    /\ file \in LoadFiles
    /\ last = NoCall
    /\ steps = 0
    /\ saving = Idle

\* network = BusinessNetwork.load(): the call returns or raises.
Load ==
    /\ set_network(load_result(file).net)
    /\ last' = IF load_result(file).ok
               THEN [NoCall EXCEPT !.op = "load", !.status = "success"]
               ELSE [NoCall EXCEPT !.op = "load", !.status = "error",
                                   !.error = load_result(file).error]
    /\ file' = file
    /\ steps' = steps
    /\ saving' = saving

LoadNext == Load

LoadSpec == LoadInit /\ [][LoadNext]_vars

\* The files load gets no network from: none, a text that does not parse, and a
\* document in which the root, the settings, the nodes, a node entry or the
\* graph is no record.
Unloadable(content) ==
    \/ content.kind = "absent"
    \/ content.kind = "truncated"
    \/ /\ content.kind = "json"
       /\ \/ "scalar" \in DOMAIN content.data
          \/ "scalar" \in DOMAIN content.data.settings
          \/ "scalar" \in DOMAIN content.data.nodes
          \/ "scalar" \in DOMAIN content.data.graph
          \/ \E k \in DOMAIN content.data.nodes : "scalar" \in DOMAIN content.data.nodes[k]

\* C20: load never raises; on a file that is not there, does not parse or is
\* structurally invalid it returns a new network (default threshold, no nodes,
\* no edges, max_depth 0); it leaves the file as it is.
C20_LoadNeverRaises ==
    [][ last'.op = "load" =>
            /\ last'.status = "success"
            /\ file' = file
            /\ Unloadable(file) =>
                  /\ node_keys' = <<>>
                  /\ DOMAIN nodes' = {}
                  /\ DOMAIN graph' = {}
                  /\ min_children_threshold' = DEFAULT_THRESHOLD
                  /\ max_depth' = 0
      ]_vars

\* load has run on a document with a node entry that is no record and another
\* threshold than the default, where the network in memory had nodes.
C20_Witness ==
    /\ last.op = "load"
    /\ file.kind = "json"
    /\ "scalar" \notin DOMAIN file.data
    /\ "scalar" \notin DOMAIN file.data.nodes
    /\ \E k \in DOMAIN file.data.nodes : "scalar" \in DOMAIN file.data.nodes[k]
    /\ file.data.settings = [min_children_threshold |-> 3]
    /\ network = EmptyNetwork

-----------------------------------------------------------------------------
(* The stored metrics of a document *)

\* The fields of a node entry that hold a metric.
StoredMetrics ==
    {"depth", "children_count", "total_children", "profit", "criticality",
     "is_chokepoint", "needed_children", "suggested_child_count"}

\* Other stored values for them and for settings.max_depth.
OtherStoredValues ==
    { [depth |-> 5, children_count |-> 5, total_children |-> 5, profit |-> 5,
       criticality |-> 5, is_chokepoint |-> TRUE, needed_children |-> 5,
       suggested_child_count |-> 5, max_depth |-> 5],
      [depth |-> 0, children_count |-> 0, total_children |-> 0, profit |-> 0,
       criticality |-> 0, is_chokepoint |-> FALSE, needed_children |-> 0,
       suggested_child_count |-> 0, max_depth |-> 0] }

\* The document that differs from data in the stored metric values alone.
WithStoredValues(data, m) ==
    [data EXCEPT
        !.nodes = [k \in DOMAIN data.nodes |->
                      [f \in DOMAIN data.nodes[k] |->
                          IF f \in StoredMetrics THEN m[f] ELSE data.nodes[k][f]]],
        !.settings = [f \in DOMAIN data.settings |->
                         IF f = "max_depth" THEN m[f] ELSE data.settings[f]]]

\* C21: the metric values a document stores are not trusted: a document that
\* differs from the loaded one only in the stored depth, children_count,
\* total_children, profit, criticality, is_chokepoint, needed_children,
\* suggested_child_count or settings.max_depth loads to the same network.
C21_StoredMetricsAreNotTrusted ==
    (last.op = "load" /\ ~Unloadable(file)) =>
        \A m \in OtherStoredValues :
            load(json_dump(WithStoredValues(file.data, m))) = network

-----------------------------------------------------------------------------
(* The order of a mutating call: mutate, recompute, save, return *)

\* The last call is a mutating one that returned success and has saved.
SavedCall ==
    /\ last.op \in {"add_node", "remove_node", "bulk_remove_nodes", "add_subtree",
                    "update_settings"}
    /\ last.status = "success"
    /\ last.saved

\* C22: when add_node, remove_node, bulk_remove_nodes, add_subtree or an
\* update_settings that changes the threshold returns success, the snapshot in
\* the file is the state in memory, and that state is a recomputed one: no
\* snapshot with stale metrics is written.
C22_SnapshotIsTheRecomputedState ==
    SavedCall =>
        LET after == AfterRecompute
        IN  /\ file = json_dump(get_network_data(network))
            /\ network = after

\* C23: every update_settings call that returns success has run one full
\* recompute (under the threshold it was given) and one save before it returns,
\* so the file holds the recomputed state.
C23_AcceptedSettingsRecomputeAndSave ==
    [][ (last'.op = "update_settings" /\ last'.status = "success") =>
            /\ network' = _update_metrics(
                              [network EXCEPT !.threshold = int(last'.min_children_threshold)])
            /\ last'.saved
            /\ file' = json_dump(get_network_data(network'))
      ]_vars

-----------------------------------------------------------------------------
(* The settings: the threshold through restarts and update_settings *)

\* The values a caller sends as min_children_threshold.
SettingsValues == {"1", "3", "0", "abc", "2.7"}

\* The files the process may start on.
SettingsFiles ==
    {NoFile} \cup
    {json_dump([keys |-> <<"a", "b">>,
                nodes |-> ("a" :> [value |-> 5]) @@ ("b" :> [parents |-> <<"a">>]),
                graph |-> ("a" :> << <<"b", 2>> >>),
                settings |-> st]) : st \in LoadSettings}

\* logic.initialize_network on the file there is.
SettingsInit ==
    /\ file \in SettingsFiles
    /\ node_keys = load(file).keys
    /\ nodes = load(file).nodes
    /\ graph = load(file).graph
    /\ min_children_threshold = load(file).threshold
    /\ max_depth = load(file).max_depth
    /\ last = NoCall
    /\ steps = 0
    /\ saving = Idle

SettingsNext ==
    \/ \E raw_threshold \in SettingsValues : UpdateSettings(raw_threshold, TRUE)
    \/ \E parent_id \in ParentInputs : AddNode(parent_id, None, None, TRUE)
    \/ InitializeNetwork

SettingsSpec == SettingsInit /\ [][SettingsNext]_vars

\* The raw value is below 1 or no integer.
OutOfRange(raw) == raw \notin IntegerStrings \/ int(raw) < 1

\* C24: min_children_threshold is at least 1 in every state, and an
\* update_settings call with a threshold below 1 or with a value that is no
\* integer returns an error and leaves the threshold, the node metrics and the
\* file as they were.
C24_ThresholdStaysValid ==
    [][ /\ min_children_threshold >= 1
        /\ min_children_threshold' >= 1
        /\ (last'.op = "update_settings" /\ OutOfRange(last'.min_children_threshold)) =>
              /\ last'.status = "error"
              /\ NetworkUnchanged
              /\ file' = file
      ]_vars

-----------------------------------------------------------------------------
(* main.py: requests served at the same time *)

\* api_add_node is a plain def, which the framework runs on a thread of its
\* pool, one thread per request in flight; main.py and logic.py take no lock.
\* Each request is a POST /api/nodes; its thread runs logic.add_node, whose
\* steps are the model's add_node (recompute included) and the steps of save
\* that touch the shared files.  Between two steps of one thread any other
\* thread may run.
Requests == {"r1", "r2"}

\* The requests in flight: where the thread of each one is, the parent_id it
\* was sent with, what it returned, and the temporary file data/network.json.tmp
\* that all saves share.
InFlight(position, parent_of, temp_file) ==
    [pc |-> position, parent_id |-> parent_of,
     status |-> [r \in Requests |-> "none"], temp |-> temp_file]

ConcurrentInit ==
    /\ \E net \in {EmptyNetwork, RootOnly, RootAndChild} :
          /\ node_keys = net.keys
          /\ nodes = net.nodes
          /\ graph = net.graph
          /\ min_children_threshold = net.threshold
          /\ max_depth = net.max_depth
          /\ file = json_dump(get_network_data(net))
    /\ \E parent_of \in [Requests -> ParentInputs] :
          saving = InFlight([r \in Requests |-> "arrived"], parent_of, NoFile)
    /\ last = NoCall
    /\ steps = 0

\* logic.py:84, current_network.add_node(...): a ValueError ends the request
\* with an error (87-89), otherwise the thread goes on to save.
ReqAddNode(r) ==
    LET res == add_node(network, saving.parent_id[r], None, None)
    IN  /\ saving.pc[r] = "arrived"
        /\ Len(res.net.keys) <= MaxNodes
        /\ set_network(res.net)
        /\ file' = file
        /\ IF res.ok
           THEN /\ saving' = [saving EXCEPT !.pc[r] = "mutated"]
                /\ last' = last
                /\ steps' = steps
           ELSE /\ saving' = [saving EXCEPT !.pc[r] = "returned", !.status[r] = "error"]
                /\ last' = [NoCall EXCEPT !.op = "add_node", !.status = "error",
                                          !.parent_id = saving.parent_id[r],
                                          !.error = res.error]
                /\ steps' = steps + 1

\* network_model.py:484-488: the snapshot of the network as it is now goes
\* to the temporary file.
ReqDump(r) ==
    /\ saving.pc[r] = "mutated"
    /\ saving' = [saving EXCEPT !.pc[r] = "dumped",
                                !.temp = json_dump(get_network_data(network))]
    /\ set_network(network)
    /\ file' = file
    /\ last' = last
    /\ steps' = steps

\* network_model.py:490-499 and logic.py:85-93: os.replace moves the temporary
\* file onto the target and the request returns success; with no temporary
\* file there os.replace raises FileNotFoundError, save raises it again and the
\* request returns the generic error.
ReqReplace(r) ==
    /\ saving.pc[r] = "dumped"
    /\ set_network(network)
    /\ steps' = steps + 1
    /\ IF saving.temp.kind = "absent"
       THEN /\ file' = file
            /\ saving' = [saving EXCEPT !.pc[r] = "returned", !.status[r] = "error"]
            /\ last' = [NoCall EXCEPT !.op = "add_node", !.status = "error",
                                      !.parent_id = saving.parent_id[r],
                                      !.error = "An unexpected server error occurred"]
       ELSE /\ file' = os_replace(file, saving.temp, TRUE)
            /\ saving' = [saving EXCEPT !.pc[r] = "returned", !.status[r] = "success",
                                        !.temp = NoFile]
            /\ last' = [NoCall EXCEPT !.op = "add_node", !.status = "success",
                                      !.parent_id = saving.parent_id[r], !.saved = TRUE]

ConcurrentNext ==
    \/ \E r \in Requests : ReqAddNode(r)
    \/ \E r \in Requests : ReqDump(r)
    \/ \E r \in Requests : ReqReplace(r)

ConcurrentSpec == ConcurrentInit /\ [][ConcurrentNext]_vars

\* The thread of request r is between the start of its mutation and the end
\* of its save.
InProgress(r) == saving.pc[r] \in {"mutated", "dumped"}

\* C25: mutating requests are serialized: the mutation, recompute and save of
\* one request run to completion before those of another begin, so at no time
\* are two requests in progress on the shared network and temporary file.
C25_MutatingRequestsAreSerialized ==
    \A r1, r2 \in Requests : (InProgress(r1) /\ InProgress(r2)) => r1 = r2

-----------------------------------------------------------------------------
(* The reads *)

\* self.graph[node_id]: the defaultdict makes an entry for a key it lacks.
graph_index(g, node_id) ==
    [graph |-> setdefault(g, node_id, <<>>), value |-> Get(g, node_id, <<>>)]

\* self.graph.get(node_id, []): the value, and the dict as the lookup leaves it.
graph_get(g, node_id) == [graph |-> g, value |-> Get(g, node_id, <<>>)]

\* The network after self.graph was looked up under each id of a sequence.
RECURSIVE looked_up(_, _)
looked_up(net, ids) ==
    IF ids = <<>> THEN net
    ELSE looked_up([net EXCEPT !.graph = graph_get(net.graph, Head(ids)).graph], Tail(ids))

\* get_node: self.nodes.get(node_id).
get_node(net, node_id) == Get(net.nodes, node_id, None)

\* The ids get_all_descendants calls get_direct_children with: node_id and,
\* in the order of the queue, every id it adds to descendants.
RECURSIVE descendants_lookups(_, _, _)
descendants_lookups(net, queue, descendants) ==
    IF queue = <<>> THEN <<>>
    ELSE LET current_node_id == Head(queue)
         IN  IF current_node_id \in DOMAIN net.nodes /\ current_node_id \notin descendants
             THEN LET found == descendants \cup {current_node_id}
                      more == SelectSeq(get_direct_children(net, current_node_id),
                                        LAMBDA c : c \notin found)
                  IN  <<current_node_id>> \o descendants_lookups(net, Tail(queue) \o more, found)
             ELSE descendants_lookups(net, Tail(queue), descendants)

\* The candidate get_unbalanced_nodes builds for a node.  criticality is in
\* thousandths and priority = criticality * 100 - depth in tenths.
candidate(net, node_id) ==
    LET node_data == net.nodes[node_id]
    IN  [id |-> node_id,
         criticality |-> node_data.criticality,
         current_children |-> node_data.children_count,
         suggested_children |-> node_data.suggested_child_count,
         needed_children |-> node_data.needed_children,
         depth |-> node_data.depth,
         priority |-> node_data.criticality - 10 * node_data.depth,
         profit |-> node_data.profit,
         value |-> node_data.value]

\* The loop over self.nodes.items(): the candidates in the order of the keys.
RECURSIVE candidates_of(_, _)
candidates_of(net, keys) ==
    IF keys = <<>> THEN <<>>
    ELSE LET node_data == net.nodes[Head(keys)]
         IN  IF node_data.needed_children > 0 /\ node_data.criticality > 0
             THEN <<candidate(net, Head(keys))>> \o candidates_of(net, Tail(keys))
             ELSE candidates_of(net, Tail(keys))

\* The sort that leaves the candidates in the order of the keys.
sort_by_nothing(candidates) == candidates

\* candidates.sort(key=priority, reverse=True): a stable sort, so an entry
\* goes behind every entry of the same or a higher priority that came before it.
RECURSIVE sort_by_priority(_)
sort_by_priority(candidates) ==
    IF candidates = <<>> THEN <<>>
    ELSE LET front == SubSeq(candidates, 1, Len(candidates) - 1)
             x == candidates[Len(candidates)]
             sorted == sort_by_priority(front)
         IN  SelectSeq(sorted, LAMBDA c : c.priority >= x.priority) \o <<x>> \o
             SelectSeq(sorted, LAMBDA c : c.priority < x.priority)

\* candidates[:limit], for a limit of 0 or more.
get_unbalanced_nodes(net, limit) ==
    LET sorted == sort_by_priority(candidates_of(net, net.keys))
    IN  SubSeq(sorted, 1, IF limit < Len(sorted) THEN limit ELSE Len(sorted))

\* sum(... for node in nodes.values())
RECURSIVE sum_over(_, _, _)
sum_over(nds, keys, field) ==
    IF keys = <<>> THEN 0 ELSE nds[Head(keys)][field] + sum_over(nds, Tail(keys), field)

RECURSIVE count_edges(_, _)
count_edges(g, keys) ==
    IF keys = {} THEN 0
    ELSE LET k == CHOOSE x \in keys : TRUE
         IN  Len(g[k]) + count_edges(g, keys \ {k})

\* logic.get_network()
GetNetwork ==
    /\ set_network(network)
    /\ last' = [NoCall EXCEPT !.op = "get_network", !.status = "success"]
    /\ file' = file
    /\ steps' = steps
    /\ saving' = saving

\* logic.get_global_stats()
GetGlobalStats ==
    /\ set_network(network)
    /\ last' = [NoCall EXCEPT !.op = "get_global_stats", !.status = "success",
                   !.ret = [total_nodes |-> Len(node_keys),
                            total_edges |-> count_edges(graph, DOMAIN graph),
                            max_depth |-> max_depth,
                            total_value |-> sum_over(nodes, node_keys, "value"),
                            total_profit |-> sum_over(nodes, node_keys, "profit")]]
    /\ file' = file
    /\ steps' = steps
    /\ saving' = saving

\* logic.get_node_insight(node_id): the fields it names; a node's other
\* properties, which it passes on as they are, are left out.
GetNodeInsight(node_id) ==
    LET call == [NoCall EXCEPT !.op = "get_node_insight", !.node_id = node_id]
        node == get_node(network, node_id)
    IN  /\ IF node_id \notin DOMAIN nodes
           THEN /\ set_network(network)
                /\ last' = [call EXCEPT !.status = "error", !.error = "Node not found"]
           ELSE /\ set_network(looked_up(network, <<node_id>>))
                /\ last' = [call EXCEPT !.status = "success",
                               !.ret = [f \in {"value", "depth", "children_count",
                                               "total_children", "profit", "criticality",
                                               "is_chokepoint", "needed_children",
                                               "suggested_child_count", "parents"} |-> node[f]],
                               !.children = get_direct_children(network, node_id)]
        /\ file' = file
        /\ steps' = steps
        /\ saving' = saving

\* logic.get_suggestions(limit): the limit is raised to 1 where it is lower.
GetSuggestions(limit) ==
    /\ set_network(network)
    /\ last' = [NoCall EXCEPT !.op = "get_suggestions", !.status = "success",
                              !.value = ToString(limit),
                              !.suggestions = get_unbalanced_nodes(network, Max(1, limit))]
    /\ file' = file
    /\ steps' = steps
    /\ saving' = saving

\* network.get_node(node_id)
GetNode(node_id) ==
    LET node == get_node(network, node_id)
    IN  /\ set_network(network)
        /\ last' = IF node_id \notin DOMAIN nodes
                   THEN [NoCall EXCEPT !.op = "get_node", !.node_id = node_id,
                                       !.status = "error"]
                   ELSE [NoCall EXCEPT !.op = "get_node", !.node_id = node_id,
                                       !.status = "success", !.ret = node]
        /\ file' = file
        /\ steps' = steps
        /\ saving' = saving

\* network.get_direct_children(node_id)
GetDirectChildren(node_id) ==
    /\ set_network(looked_up(network, <<node_id>>))
    /\ last' = [NoCall EXCEPT !.op = "get_direct_children", !.node_id = node_id,
                              !.status = "success",
                              !.children = get_direct_children(network, node_id)]
    /\ file' = file
    /\ steps' = steps
    /\ saving' = saving

\* network.get_all_descendants(node_id)
GetAllDescendants(node_id) ==
    /\ set_network(IF node_id \in DOMAIN nodes
                   THEN looked_up(network,
                                  <<node_id>> \o
                                  descendants_lookups(network,
                                      get_direct_children(network, node_id), {}))
                   ELSE network)
    /\ last' = [NoCall EXCEPT !.op = "get_all_descendants", !.node_id = node_id,
                              !.status = "success",
                              !.descendants = get_all_descendants(network, node_id)]
    /\ file' = file
    /\ steps' = steps
    /\ saving' = saving

Limits == {0, 1, 2}

\* The reads, and the calls that bring the network into the states they are
\* made in: add_node, remove_node, the imports of FaultyFragments (one of which
\* fails halfway and leaves metrics that were not recomputed) and the restart.
ReadNext ==
    \/ \E parent_id \in ParentInputs : AddNode(parent_id, None, None, TRUE)
    \/ \E node_id \in KnownIds : RemoveNode(node_id, TRUE)
    \/ \E parent_id \in KnownIds, subtree_data \in FaultyFragments, stamp \in Stamps :
          \E subtree_roots \in Orders(subtree_root_set(subtree_data)) :
             AddSubtree(parent_id, subtree_data, stamp, subtree_roots, TRUE)
    \/ GetNetwork
    \/ GetGlobalStats
    \/ \E node_id \in KnownIds : GetNodeInsight(node_id)
    \/ \E limit \in Limits : GetSuggestions(limit)
    \/ \E node_id \in KnownIds : GetNode(node_id)
    \/ \E node_id \in KnownIds : GetDirectChildren(node_id)
    \/ \E node_id \in KnownIds : GetAllDescendants(node_id)

ReadSpec == Init /\ [][ReadNext]_vars

ReadOps ==
    {"get_network", "get_global_stats", "get_node_insight", "get_suggestions",
     "get_node", "get_direct_children", "get_all_descendants"}

\* C26: get_network, get_global_stats, get_node_insight, get_suggestions,
\* get_node, get_direct_children and get_all_descendants leave nodes, graph
\* (its key set included), settings and max_depth as they were, recompute
\* nothing and save nothing.
C26_ReadsChangeNothing ==
    [][ last'.op \in ReadOps =>
            /\ NetworkUnchanged
            /\ DOMAIN graph' = DOMAIN graph
            /\ file' = file
      ]_vars

\* A read has been made of a network whose metrics a recompute would change,
\* under an id that is no node and has no entry in graph.
C26_Witness ==
    /\ last.op = "get_direct_children"
    /\ last.node_id \notin DOMAIN nodes
    /\ last.node_id \notin DOMAIN graph
    /\ network # _update_metrics(network)

-----------------------------------------------------------------------------
(* The ids and the first metrics of add_node *)

\* The edges of p lead to exactly the ids of S, one edge each.
ChildrenAre(p, S) ==
    /\ Len(graph[p]) = Cardinality(S)
    /\ {graph[p][i][1] : i \in 1..Len(graph[p])} = S

\* C27: with no id asked for, the first node added to an empty network gets
\* the id "root", depth 0 and, with no value given, the value 1000.0; the
\* i-th child added to a parent p, i being p's out-degree at the call plus 1,
\* gets the id "p.i" when that id is free; and once root has the two children
\* root.1 and root.2 of value 1000.0, children_count(root) = 2 and
\* profit(root) = 2000.0.
C27_AddNodeIdsAndFirstMetrics ==
    [][ (last'.op = "add_node" /\ last'.status = "success" /\ last'.node_id = None) =>
            /\ node_keys = <<>> =>
                  /\ last'.id = "root"
                  /\ nodes'["root"].depth = 0
                  /\ last'.value = None => nodes'["root"].value = 1000
            /\ node_keys # <<>> =>
                  LET p == last'.parent_id
                      i == Len(graph[p]) + 1
                      wanted == p \o "." \o ToString(i)
                  IN  wanted \notin DOMAIN nodes =>
                         /\ last'.id = wanted
                         /\ graph'[p] = Append(graph[p], <<wanted, 1>>)
                         /\ nodes'[wanted].parents = <<p>>
            /\ ( /\ "root" \in DOMAIN graph'
                 /\ ChildrenAre("root", {"root.1", "root.2"})'
                 /\ nodes'["root.1"].value = 1000
                 /\ nodes'["root.2"].value = 1000 ) =>
                  /\ nodes'["root"].children_count = 2
                  /\ nodes'["root"].profit = 2000
      ]_vars

\* add_node, with no id and no value asked for, has made root, root.1 and
\* root.2 in turn.
C27_Witness ==
    /\ node_keys = <<"root", "root.1", "root.2">>
    /\ last.op = "add_node"
    /\ last.id = "root.2"
    /\ last.value = None
    /\ nodes["root"].value = 1000
    /\ nodes["root"].children_count = 2
    /\ nodes["root"].profit = 2000

-----------------------------------------------------------------------------
(* Needs, criticality and ranking as functions of children_count, depth and
   threshold *)

\* The thresholds, children counts and depths the functions are applied to.
\* A node of the network below stands for a node with that many children at
\* that depth in a network large enough to hold it.
MetricThresholds == {1, 3, 2001}
MetricChildCounts == {0, 1, 2000, 2001}
MetricDepths == {0, 1, 14}
MetricIds == <<"n1", "n2", "n3">>
RankLimits == {1, 2, 3}

\* The network after the depth and counts passes of a recompute: every node
\* with its depth and children_count, the later fields not yet computed.
MetricsInit ==
    /\ node_keys = MetricIds
    /\ \E cc \in [Range(MetricIds) -> MetricChildCounts],
          d \in [Range(MetricIds) -> MetricDepths] :
          nodes = [k \in Range(MetricIds) |->
                      [new_node(k, DEFAULT_NODE_VALUE, DEFAULT_THRESHOLD) EXCEPT
                          !.children_count = cc[k], !.depth = d[k]]]
    /\ graph = [k \in Range(MetricIds) |-> <<>>]
    /\ min_children_threshold \in MetricThresholds
    /\ max_depth = 14
    /\ file = NoFile
    /\ last = NoCall
    /\ steps = 0
    /\ saving = Idle

\* Steps 3 and 4 of _update_metrics: suggested_child_count, needed_children,
\* is_chokepoint, then criticality.
NeedsAndCriticality ==
    /\ last.op = "none"
    /\ set_network(criticality_pass(needs_pass(network)))
    /\ last' = [NoCall EXCEPT !.op = "_update_metrics", !.status = "success"]
    /\ file' = file
    /\ steps' = steps
    /\ saving' = saving

MetricsNext ==
    \/ NeedsAndCriticality
    \/ \E limit \in RankLimits : last.op # "none" /\ GetSuggestions(limit)

MetricsSpec == MetricsInit /\ [][MetricsNext]_vars

AtLeastOneThousandth(n) ==
    1000 * nodes[n].needed_children * 25 >= min_children_threshold * (25 + nodes[n].depth)

-----------------------------------------------------------------------------
(* The ranking *)

\* The limit get_unbalanced_nodes was called with by the last get_suggestions.
RankedLimit == Max(1, CHOOSE limit \in RankLimits \cup Limits : ToString(limit) = last.value)

\* The nodes the ranking may list, and the priority of a node in tenths.
Qualifying == {n \in DOMAIN nodes : nodes[n].needed_children > 0 /\ nodes[n].criticality > 0}
PriorityOf(n) == nodes[n].criticality - 10 * nodes[n].depth

\* C29: get_unbalanced_nodes(limit) returns at most limit entries, each a node
\* with needed_children > 0 and criticality > 0 listed once with its priority
\* criticality * 100 - depth, in the order of non-increasing priority; no
\* qualifying node left out has a priority above that of a returned one, and
\* of two returned nodes with the same criticality the shallower comes first.
C29_RankingByPriority ==
    last.op = "get_suggestions" =>
        LET r == last.suggestions
            listed == {r[i].id : i \in 1..Len(r)}
        IN  /\ Len(r) <= RankedLimit
            /\ \A i \in 1..Len(r) :
                  /\ r[i].id \in Qualifying
                  /\ r[i].needed_children = nodes[r[i].id].needed_children
                  /\ r[i].criticality = nodes[r[i].id].criticality
                  /\ r[i].depth = nodes[r[i].id].depth
                  /\ r[i].priority = PriorityOf(r[i].id)
            /\ \A i, j \in 1..Len(r) : i < j =>
                  /\ r[i].id # r[j].id
                  /\ r[i].priority >= r[j].priority
            /\ \A n \in Qualifying \ listed :
                  \A i \in 1..Len(r) : PriorityOf(n) <= r[i].priority
            /\ \A i, j \in 1..Len(r) :
                  (r[i].criticality = r[j].criticality /\ r[i].depth < r[j].depth) => i < j

\* A ranking of two has been returned whose entries have the same criticality
\* at different depths, the deeper one being the earlier key, with a third
\* qualifying node left out.
C29_Witness ==
    /\ last.op = "get_suggestions"
    /\ Len(last.suggestions) = 2
    /\ RankedLimit = 2
    /\ last.suggestions[1].id = "n2"
    /\ last.suggestions[2].id = "n1"
    /\ nodes["n1"].criticality = nodes["n2"].criticality
    /\ nodes["n2"].depth < nodes["n1"].depth
    /\ "n3" \in Qualifying

-----------------------------------------------------------------------------
(* A bulk deletion that fails after its upfront check *)

\* The ids a list names more than once.
ListedTwice(node_ids) ==
    {node_ids[i] : i \in {k \in 1..Len(node_ids) : \E j \in 1..(k - 1) : node_ids[j] = node_ids[k]}}

\* C30: when bulk_remove_nodes passes its upfront check and a removal then
\* fails (an id listed twice), the nodes whose removal succeeded are gone and no
\* others, the network is saved after the loop, and the result is an error
\* that reports deleted_count = the number of nodes removed and a
\* failed_nodes entry for each id whose removal failed.
C30_PartialBulkDeleteIsReported ==
    [][ ( /\ last'.op = "bulk_remove_nodes"
          /\ last'.node_ids # <<>>
          /\ FailsValidation(last'.node_ids) = {}
          /\ ListedTwice(last'.node_ids) # {} ) =>
            /\ DOMAIN nodes' = (DOMAIN nodes) \ Range(last'.node_ids)
            /\ last'.status = "error"
            /\ last'.error = "Completed with errors"
            /\ last'.deleted_count = Cardinality(Range(last'.node_ids))
            /\ DOMAIN last'.failed_nodes = ListedTwice(last'.node_ids)
            /\ last'.saved
            /\ file' = json_dump(get_network_data(network'))
      ]_vars

\* A bulk deletion naming a leaf twice has removed it, reported one deletion
\* and one failure, and saved.
C30_Witness ==
    /\ last.op = "bulk_remove_nodes"
    /\ last.node_ids = <<"root.1", "root.1">>
    /\ last.deleted_count = 1
    /\ DOMAIN last.failed_nodes = {"root.1"}
    /\ node_keys = <<"root">>
    /\ file = json_dump(get_network_data(network))


\* ---------------------------------------------------------------------------
\* Backups of save
\* ---------------------------------------------------------------------------

\* Every backup file that was there when save began is still there and holds
\* what it held.
EarlierBackupsKept ==
    \A name \in DOMAIN saving.earlier :
        /\ name \in DOMAIN saving.backup_dir
        /\ saving.backup_dir[name] = saving.earlier[name]

\* The copy of the target was made: the target was there and copy2 returned.
BackupCopied == saving.pc # "backup" /\ saving.backup # NoFile

\* The backup step does not end the save: a save that raised did so at the
\* temporary file or at os.replace; a save that returned left the new snapshot.
BackupFailureIsPassedOver ==
    /\ saving.pc = "raised" => saving.failed_at \in {"open", "dump", "replace"}
    /\ saving.pc = "returned" => file = NewSnapshot

\* When the copy succeeded the backup of this save holds the snapshot the
\* target held before the save.
BackupHoldsEarlierSnapshot ==
    BackupCopied =>
        /\ saving.timestamp \in DOMAIN saving.backup_dir
        /\ saving.backup_dir[saving.timestamp] = saving.before
        /\ saving.before.kind = "json"

\* C31: a save over an existing target first copies it to a backup; a copy
\* that fails does not stop the save, which without a write failure ends with
\* the new snapshot in the target; a copy that succeeds holds exactly the
\* snapshot the target held before; and no earlier backup is ever deleted or
\* written over.
C31_SaveKeepsEarlierBackups ==
    /\ BackupFailureIsPassedOver
    /\ BackupHoldsEarlierSnapshot
    /\ EarlierBackupsKept

\* The parts of C31 that do not depend on the name of the backup file.
C31_BackupBeforeSave ==
    /\ BackupFailureIsPassedOver
    /\ BackupHoldsEarlierSnapshot

\* A save read the time stamp of an earlier backup and returned: the earlier
\* backup now holds the snapshot this save replaced.
C31_Witness ==
    /\ saving.pc = "returned"
    /\ BackupCopied
    /\ saving.timestamp \in DOMAIN saving.earlier
    /\ saving.backup_dir[saving.timestamp] # saving.earlier[saving.timestamp]


\* ---------------------------------------------------------------------------
\* The bound on depth
\* ---------------------------------------------------------------------------

\* C32: after a recompute every node's depth, and max_depth, is at most the
\* number of nodes plus one, cycles and nodes the topological pass leaves out
\* included.
C32_DepthIsBounded ==
    last.op = "_update_metrics" =>
        /\ \A k \in DOMAIN nodes : nodes[k].depth <= Len(node_keys) + 1
        /\ max_depth <= Len(node_keys) + 1


-----------------------------------------------------------------------------
(* _update_metrics, call by call and turn by turn *)

\* _calculate_depth calls itself at line 283, one interpreter frame for each
\* node on the path to a root.  CPython raises RecursionError at
\* sys.getrecursionlimit() frames, 1000 unless changed; the limit is scaled
\* here to the networks of three nodes as MaxNodes scales the networks: a
\* path of three nodes is one frame too deep.
RecursionLimit == 2

\* The networks the recompute is run on: a, b and c with any parents lists,
\* the graph the parents lists give or that graph with one edge less.
OneEdgeLess(parent_pairs) ==
    {parent_pairs} \cup {parent_pairs \ {e} : e \in parent_pairs}

StepwiseNetworks ==
    UNION {{RecomputeNetwork(parent_pairs, edge_pairs, EmptyMap) :
               edge_pairs \in OneEdgeLess(parent_pairs)} :
           parent_pairs \in SUBSET RecomputePairs}
        \cup {EmptyNetwork}

\* The locals of a call of _update_metrics: its position, the locals of the
\* topological pass (queue, in_degree, node_depths, processed_nodes), the ids
\* the pass left out in the order the set yields them, the frames of
\* _calculate_depth (node, parents still to visit, max_parent_depth), and for
\* the counts the ids still to go through, the queue and the set of
\* get_all_descendants and all_descendants_map.  began is the network the call
\* was made on.
RecomputeLocals(net) ==
    [pc |-> "start", began |-> net, kahn |-> kahn_start(net), order |-> <<>>,
     unprocessed |-> <<>>,
     stack |-> <<>>, todo |-> <<>>, in_loop |-> FALSE, queue |-> <<>>,
     descendants |-> {}, all_descendants_map |-> EmptyMap]

StepwiseInit ==
    /\ node_keys = <<>>
    /\ nodes = EmptyMap
    /\ graph = EmptyMap
    /\ saving = [RecomputeLocals(EmptyNetwork) EXCEPT !.pc = "new"]
    /\ min_children_threshold = DEFAULT_THRESHOLD
    /\ max_depth = 0
    /\ file = NoFile
    /\ last = NoCall
    /\ steps = 0

\* The network the call is made on is there (load has built it from the
\* document, lines 522-561, and calls _update_metrics at line 564).
BuildNetwork(net) ==
    /\ saving.pc = "new"
    /\ node_keys' = net.keys
    /\ nodes' = net.nodes
    /\ graph' = net.graph
    /\ saving' = RecomputeLocals(net)
    /\ UNCHANGED <<min_children_threshold, max_depth, file, last, steps>>

StepwiseUnchanged ==
    /\ node_keys' = node_keys
    /\ graph' = graph
    /\ min_children_threshold' = min_children_threshold
    /\ file' = file
    /\ steps' = steps

\* self.nodes[node_id]['_current_depth_calculation'] = depth
set_memo(node, depth) ==
    [f \in DOMAIN node \cup {"_current_depth_calculation"} |->
        IF f = "_current_depth_calculation" THEN depth ELSE node[f]]

\* A call of _calculate_depth returns value.  To the frame that called it:
\* line 285 and the next turn of the loop.  To the fallback (lines 435-439):
\* the depth is stored, max_depth raised and every record's entry dropped.
return_depth(loc, nds, md, value) ==
    IF loc.stack = <<>>
    THEN [loc |-> [loc EXCEPT !.pc = "fallback", !.unprocessed = Tail(@)],
          nodes |-> [k \in DOMAIN nds |->
                        pop_memo(IF k = Head(loc.unprocessed)
                                 THEN [nds[k] EXCEPT !.depth = value]
                                 ELSE nds[k])],
          max_depth |-> Max(md, value)]
    ELSE [loc |-> [loc EXCEPT
                      !.stack[Len(loc.stack)].max_parent_depth = Max(@, value),
                      !.stack[Len(loc.stack)].rest = Tail(@)],
          nodes |-> nds,
          max_depth |-> md]

\* A call of _calculate_depth(node_id, visited), lines 261-277: it needs a
\* frame; it returns 0 for a node without valid parents and len(nodes) + 1 for
\* a node on the path, and goes into the loop over the parents otherwise.
call_depth(loc, nds, md, node_id) ==
    IF Len(loc.stack) + 1 > RecursionLimit
    THEN [loc |-> [loc EXCEPT !.pc = "raised"], nodes |-> nds, max_depth |-> md]
    ELSE IF valid_parents_of(nds, node_id) = <<>>
    THEN return_depth(loc, nds, md, 0)
    ELSE IF node_id \in {loc.stack[i].node_id : i \in DOMAIN loc.stack}
    THEN return_depth(loc, nds, md, Cardinality(DOMAIN nds) + 1)
    ELSE [loc |-> [loc EXCEPT !.pc = "call",
                              !.stack = Append(@, [node_id |-> node_id,
                                                   rest |-> valid_parents_of(nds, node_id),
                                                   max_parent_depth |-> -1])],
          nodes |-> nds,
          max_depth |-> md]

\* Lines 382-400: the empty network is done at once; otherwise the parents
\* lists are cleaned and the parentless nodes queued.
StartRecompute ==
    /\ saving.pc = "start"
    /\ IF node_keys = <<>>
       THEN /\ nodes' = nodes
            /\ saving' = [saving EXCEPT !.pc = "done"]
       ELSE /\ nodes' = clean_parents(network).nodes
            /\ saving' = [saving EXCEPT !.pc = "kahn",
                                        !.kahn = kahn_start(clean_parents(network))]
    /\ max_depth' = 0
    /\ last' = last
    /\ StepwiseUnchanged

\* Lines 403-419: one turn of the while loop of the topological pass.
KahnTurn ==
    /\ saving.pc = "kahn"
    /\ saving.kahn.queue # <<>>
    /\ LET s == saving.kahn
           node_id == Head(s.queue)
           current_depth == Get(s.node_depths, node_id, 0)
           s1 == [s EXCEPT !.queue = Tail(@),
                           !.processed = @ \cup {node_id},
                           !.nodes[node_id].depth = current_depth,
                           !.max_depth = Max(@, current_depth)]
           s2 == IF node_id \in s.processed
                 THEN [s EXCEPT !.queue = Tail(@)]
                 ELSE kahn_children(s1, get_direct_children(network, node_id), current_depth)
       IN  /\ saving' = [saving EXCEPT !.kahn = s2]
           /\ nodes' = s2.nodes
           /\ max_depth' = s2.max_depth
    /\ last' = last
    /\ StepwiseUnchanged

\* Lines 425-429: the queue is empty; if ids were left out they are gone
\* through in the order their set yields them.
EndTopological(order) ==
    /\ saving.pc = "kahn"
    /\ saving.kahn.queue = <<>>
    /\ saving' = [saving EXCEPT
          !.order = order,
          !.pc = IF Cardinality(saving.kahn.processed) # Cardinality(DOMAIN nodes)
                 THEN "fallback" ELSE "counts",
          !.unprocessed = SelectSeq(order, LAMBDA k : k \notin saving.kahn.processed),
          !.todo = node_keys]
    /\ UNCHANGED <<nodes, max_depth, last>>
    /\ StepwiseUnchanged

\* Lines 429-435: the next id the topological pass left out; a node whose
\* record holds an entry is passed over, for the others _calculate_depth is
\* called with an empty path.
FallbackTurn ==
    /\ saving.pc = "fallback"
    /\ IF saving.unprocessed = <<>>
       THEN /\ saving' = [saving EXCEPT !.pc = "counts"]
            /\ nodes' = nodes
            /\ max_depth' = max_depth
            /\ last' = last
       ELSE IF has_memo(nodes[Head(saving.unprocessed)])
       THEN /\ saving' = [saving EXCEPT !.unprocessed = Tail(@)]
            /\ nodes' = nodes
            /\ max_depth' = max_depth
            /\ last' = last
       ELSE LET r == call_depth(saving, nodes, max_depth, Head(saving.unprocessed))
            IN  /\ saving' = r.loc
                /\ nodes' = r.nodes
                /\ max_depth' = r.max_depth
                /\ last' = IF r.loc.pc = "raised"
                           THEN [NoCall EXCEPT !.op = "_update_metrics", !.status = "error"]
                           ELSE last
    /\ StepwiseUnchanged

\* Lines 278-292, one turn of the loop over the parents in the frame on top:
\* a parent whose record holds an entry gives it, another is called; after
\* the last parent the frame stores its depth in the record and returns it.
DepthTurn ==
    /\ saving.pc = "call"
    /\ LET top == saving.stack[Len(saving.stack)]
           r == IF top.rest = <<>>
                THEN LET depth == IF top.max_parent_depth >= 0
                                  THEN top.max_parent_depth + 1 ELSE 0
                     IN  return_depth(
                             [saving EXCEPT !.stack = SubSeq(@, 1, Len(@) - 1)],
                             [nodes EXCEPT ![top.node_id] = set_memo(@, depth)],
                             max_depth, depth)
                ELSE IF has_memo(nodes[Head(top.rest)])
                THEN return_depth(saving, nodes, max_depth,
                                  nodes[Head(top.rest)]._current_depth_calculation)
                ELSE call_depth(saving, nodes, max_depth, Head(top.rest))
       IN  /\ saving' = r.loc
           /\ nodes' = r.nodes
           /\ max_depth' = r.max_depth
           /\ last' = IF r.loc.pc = "raised"
                      THEN [NoCall EXCEPT !.op = "_update_metrics", !.status = "error"]
                      ELSE last
    /\ StepwiseUnchanged

\* Line 444, the next get_all_descendants(nid): lines 236-238.
StartDescendants ==
    /\ saving.pc = "counts"
    /\ ~saving.in_loop
    /\ saving.todo # <<>>
    /\ saving' = [saving EXCEPT !.in_loop = TRUE,
                                !.queue = get_direct_children(network, Head(saving.todo)),
                                !.descendants = {}]
    /\ UNCHANGED <<nodes, max_depth, last>>
    /\ StepwiseUnchanged

\* Lines 239-245: one turn of the while loop.
DescendantsTurn ==
    /\ saving.pc = "counts"
    /\ saving.in_loop
    /\ saving.queue # <<>>
    /\ LET current_node_id == Head(saving.queue)
       IN  saving' =
             IF current_node_id \in DOMAIN nodes /\ current_node_id \notin saving.descendants
             THEN [saving EXCEPT
                     !.descendants = @ \cup {current_node_id},
                     !.queue = Tail(@) \o
                               SelectSeq(get_direct_children(network, current_node_id),
                                         LAMBDA c : c \notin saving.descendants \cup {current_node_id})]
             ELSE [saving EXCEPT !.queue = Tail(@)]
    /\ UNCHANGED <<nodes, max_depth, last>>
    /\ StepwiseUnchanged

\* Line 246: the queue is empty, the set is returned into all_descendants_map.
ReturnDescendants ==
    /\ saving.pc = "counts"
    /\ saving.in_loop
    /\ saving.queue = <<>>
    /\ saving' = [saving EXCEPT
                     !.in_loop = FALSE,
                     !.todo = Tail(@),
                     !.all_descendants_map = Put(@, Head(saving.todo), saving.descendants)]
    /\ UNCHANGED <<nodes, max_depth, last>>
    /\ StepwiseUnchanged

\* Lines 445-447 with the sets of all_descendants_map.
counts_from(net, all_descendants_map) ==
    [net EXCEPT !.nodes = [k \in DOMAIN net.nodes |->
        [net.nodes[k] EXCEPT
            !.children_count = Len(get_direct_children(net, k)),
            !.total_children = Cardinality(Get(all_descendants_map, k, {}))]]]

\* Lines 445-447: the counts are stored.
CountsPass ==
    /\ saving.pc = "counts"
    /\ ~saving.in_loop
    /\ saving.todo = <<>>
    /\ nodes' = counts_from(network, saving.all_descendants_map).nodes
    /\ saving' = [saving EXCEPT !.pc = "profit"]
    /\ UNCHANGED <<max_depth, last>>
    /\ StepwiseUnchanged

\* Lines 450-451.
ProfitPass ==
    /\ saving.pc = "profit"
    /\ nodes' = profit_pass(network).nodes
    /\ saving' = [saving EXCEPT !.pc = "needs"]
    /\ UNCHANGED <<max_depth, last>>
    /\ StepwiseUnchanged

\* Lines 454-459.
NeedsPass ==
    /\ saving.pc = "needs"
    /\ nodes' = needs_pass(network).nodes
    /\ saving' = [saving EXCEPT !.pc = "criticality"]
    /\ UNCHANGED <<max_depth, last>>
    /\ StepwiseUnchanged

\* Lines 462-468, after which the call returns.
CriticalityPass ==
    /\ saving.pc = "criticality"
    /\ nodes' = criticality_pass(network).nodes
    /\ max_depth' = max_depth
    /\ saving' = [saving EXCEPT !.pc = "done"]
    /\ last' = [NoCall EXCEPT !.op = "_update_metrics", !.status = "success"]
    /\ StepwiseUnchanged

StepwiseNext ==
    \/ \E net \in StepwiseNetworks : BuildNetwork(net)
    \/ StartRecompute
    \/ KahnTurn
    \/ \E order \in Orders(DOMAIN nodes) : EndTopological(order)
    \/ FallbackTurn
    \/ DepthTurn
    \/ StartDescendants
    \/ DescendantsTurn
    \/ ReturnDescendants
    \/ CountsPass
    \/ ProfitPass
    \/ NeedsPass
    \/ CriticalityPass

StepwiseSpec == StepwiseInit /\ [][StepwiseNext]_vars

\* The call runs on: the interpreter takes the next step whenever there is one.
StepwiseFairSpec == StepwiseSpec /\ WF_vars(StepwiseNext)

\* The call that went through step by step left what _update_metrics gives
\* in one piece.
StepwiseAgrees ==
    saving.pc = "done" =>
        network = update_metrics_in(saving.began, saving.order)

MetricFields ==
    {"depth", "children_count", "total_children", "profit",
     "suggested_child_count", "needed_children", "is_chokepoint", "criticality"}

\* C33: the recompute and the descendant traversal in it come to their end on
\* every finite network, whatever its cycles, self-loops and disagreements
\* of graph and parents; at the end every node has its depth and the other
\* metrics; no call is aborted by an error.
C33_RecomputeTerminates ==
    <>(/\ saving.pc = "done"
       /\ \A k \in DOMAIN nodes : MetricFields \subseteq DOMAIN nodes[k])

\* The descendant traversal, and with it the recompute that no error aborts,
\* comes to its end.
C33_RecomputeEndsOrRaises == <>(saving.pc \in {"done", "raised"})

\* A call ran into the fallback, _calculate_depth returned and the call is done.
C33_Witness ==
    /\ saving.pc = "done"
    /\ saving.order # <<>>
    /\ \E k \in DOMAIN nodes : nodes[k].depth > Cardinality(DOMAIN nodes)


\* ---------------------------------------------------------------------------
\* The recompute of an import
\* ---------------------------------------------------------------------------

\* add_subtree_from_data returned: the request succeeded, or failed only at
\* the save that follows the call.
ImportReturned ==
    /\ last.op = "add_subtree"
    /\ \/ last.status = "success"
       \/ last.error = "An unexpected server error occurred"

\* C34: every add_subtree_from_data that returns without error has run the
\* recompute exactly once, and after all its nodes and edges were added: the
\* network it leaves is the recomputed one.  This holds for every fragment,
\* the one with an empty node map included.
C34_ImportRecomputesOnce ==
    ImportReturned =>
        LET recomputed == _update_metrics(network)
        IN  /\ last.recomputes = 1
            /\ network = recomputed

\* The same for the fragments that have a node.
C34_NonEmptyImportRecomputesOnce ==
    (ImportReturned /\ DOMAIN last.subtree_data.nodes # {}) =>
        LET recomputed == _update_metrics(network)
        IN  /\ last.recomputes = 1
            /\ network = recomputed

\* An import of two nodes and an edge returned.
C34_Witness ==
    /\ ImportReturned
    /\ Len(last.added_nodes) = 2
    /\ \E k \in DOMAIN nodes : nodes[k].depth = 2


-----------------------------------------------------------------------------
(* add_subtree_from_data on fragments of every shape *)

\* The fragments: one to three of the nodes a, b and c, and up to three edges
\* among them, from the id z that is no node of any fragment, or to the id q
\* that is none either; a source may list its first target twice.
ImportIds == {"a", "b", "c"}

ImportPairs == (({"a", "b", "c", "z"}) \X ImportIds) \cup {<<"a", "q">>}

MaxEdges == 3

ImportTargets == <<"a", "b", "c", "q">>

ImportListing(src, edge_pairs, doubled) ==
    LET targets == SelectSeq(ImportTargets, LAMBDA t : <<src, t>> \in edge_pairs)
        listed == IF doubled THEN targets \o <<Head(targets)>> ELSE targets
    IN  [i \in 1..Len(listed) |-> <<listed[i], None>>]

ImportFragment(ids, edge_pairs, doubled) ==
    Subtree([k \in ids |-> v0],
            [src \in {p[1] : p \in edge_pairs} |-> ImportListing(src, edge_pairs, doubled)])

ImportFragments ==
    UNION {{ImportFragment(ids, edge_pairs, doubled) :
               ids \in (SUBSET ImportIds) \ {{}}, doubled \in BOOLEAN} :
           edge_pairs \in {E \in SUBSET ImportPairs : Cardinality(E) <= MaxEdges}}

\* The network the import is made on: the root alone, or the root and a child;
\* one call is made.
ImportInit ==
    /\ \E net \in {RootOnly, RootAndChild} :
          /\ node_keys = net.keys
          /\ nodes = net.nodes
          /\ graph = net.graph
          /\ min_children_threshold = net.threshold
          /\ max_depth = net.max_depth
          /\ file = json_dump(get_network_data(net))
    /\ last = NoCall
    /\ steps = MaxSteps - 1
    /\ saving = Idle

ImportNext ==
    /\ steps < MaxSteps
    /\ \E parent_id \in DOMAIN nodes, subtree_data \in ImportFragments, stamp \in Stamps,
          io_ok \in SaveOutcomes :
          \E subtree_roots \in Orders(subtree_root_set(subtree_data)) :
             AddSubtree(parent_id, subtree_data, stamp, subtree_roots, io_ok)

ImportSpec == ImportInit /\ [][ImportNext]_vars

\* The fragment lists v under u.
FragmentEdge(sd, u, v) ==
    u \in DOMAIN sd.graph /\ \E i \in 1..Len(sd.graph[u]) : sd.graph[u][i][1] = v

ImportSucceeded ==
    /\ last.op = "add_subtree"
    /\ last.status = "success"
    /\ last.added_nodes # <<>>

\* C35: after a successful import, for fragment nodes u and v imported as m(u)
\* and m(v), the graph has the edge m(u) -> m(v) exactly if the fragment has
\* the edge u -> v, and so has m(v).parents the entry m(u), whatever the order
\* of the traversal; an edge of the fragment with an end that was not imported
\* created nothing: the copies have no edge and no parent but these and the
\* link of the local roots to parent_id.
C35_ImportedEdgesAreTheFragmentEdges ==
    ImportSucceeded =>
        LET m == last.id_mapping
            sd == last.subtree_data
            copies == {m[u] : u \in DOMAIN m}
        IN  /\ \A u, v \in DOMAIN m :
                  /\ HasEdge(m[u], m[v]) <=> FragmentEdge(sd, u, v)
                  /\ HasParent(m[v], m[u]) <=> FragmentEdge(sd, u, v)
            /\ \A n \in copies :
                  /\ \A i \in 1..Len(graph[n]) : graph[n][i][1] \in copies
                  /\ Range(nodes[n].parents) \subseteq copies \cup {last.parent_id}
                  /\ \A p \in DOMAIN graph : HasEdge(p, n) => p \in copies \cup {last.parent_id}
            /\ \A p \in DOMAIN nodes \ copies :
                  Range(nodes[p].parents) \cap copies = {}

\* A fragment was imported in which a copied node lists a node that was not
\* copied and a copied node is listed under an id that was not copied, and a
\* node below a local root has two edges between copies.
C35_Witness ==
    /\ ImportSucceeded
    /\ LET m == last.id_mapping
           sd == last.subtree_data
       IN  /\ \E u \in DOMAIN m, t \in {"a", "b", "c", "q"} \ DOMAIN m : FragmentEdge(sd, u, t)
           /\ \E s \in {"a", "b", "c", "z"} \ DOMAIN m, v \in DOMAIN m : FragmentEdge(sd, s, v)
           /\ \E u, v \in DOMAIN m : u # v /\ FragmentEdge(sd, u, v)


\* ---------------------------------------------------------------------------
\* The network load returns
\* ---------------------------------------------------------------------------

\* Every edge joins two nodes and every parents entry names a node.
NothingDangles ==
    /\ EdgeSources \subseteq DOMAIN nodes
    /\ EdgeTargets \subseteq DOMAIN nodes
    /\ ParentEntries \subseteq DOMAIN nodes

\* The graph has the edge p -> c exactly if c.parents has the entry p.
EdgesAgreeWithParents ==
    \A p, c \in DOMAIN nodes \cup DOMAIN graph : HasEdge(p, c) <=> HasParent(c, p)

LoadReturned == last.op = "load" /\ last.status = "success"

\* C36: the network load returns from a parseable document has no edge whose
\* source or target is no node and no parents entry that names no node, and
\* graph and parents agree in it, also where they disagree in the document.
C36_LoadedNetworkIsConsistent ==
    LoadReturned => (NothingDangles /\ EdgesAgreeWithParents)

\* The part of C36 about ids that are no nodes.
C36_LoadedNetworkHasNoDanglingIds ==
    LoadReturned => NothingDangles

\* load returned a network from a document whose graph names an id that is no
\* node and whose parents lists name one.
C36_Witness ==
    /\ LoadReturned
    /\ file.kind = "json"
    /\ "ghost" \in Range(file.data.nodes["a"].parents)
    /\ \E i \in 1..Len(file.data.graph["a"]) : file.data.graph["a"][i][1] = "ghost"


\* ---------------------------------------------------------------------------
\* Cycles
\* ---------------------------------------------------------------------------

\* The fragment nodes the fragment lists under n.
FragmentChildren(sd, n) ==
    IF n \in DOMAIN sd.graph
    THEN {sd.graph[n][i][1] : i \in 1..Len(sd.graph[n])} \cap DOMAIN sd.nodes
    ELSE {}

\* A fragment node is reached from itself by the fragment's edges.
FragmentHasCycle(sd) ==
    \E n \in DOMAIN sd.nodes :
        FragmentChildren(sd, n) # {} /\ n \in FragmentFrom(sd, FragmentChildren(sd, n))

\* C37: in every state reached from the empty network by add_node,
\* remove_node, bulk_remove_nodes and add_subtree_from_data, with any fragment
\* the import accepts (a self-loop or a cycle below a local root included),
\* no node is its own ancestor.
C37_NoNodeIsItsOwnAncestor == Acyclic

\* A step makes a cycle only if it is the import of a fragment with a cycle.
C37_CyclesComeFromCyclicFragments ==
    [][ (Acyclic /\ ~Acyclic')
           => (last'.op = "add_subtree" /\ FragmentHasCycle(last'.subtree_data)) ]_vars


\* ---------------------------------------------------------------------------
\* The cached max_depth
\* ---------------------------------------------------------------------------

\* The greatest depth field of the nodes, 0 where there is no node.
GreatestDepth ==
    IF DOMAIN nodes = {} THEN 0
    ELSE CHOOSE d \in {nodes[k].depth : k \in DOMAIN nodes} :
             \A k \in DOMAIN nodes : nodes[k].depth <= d

CompletedMutationOrLoad ==
    /\ last.op \in {"add_node", "remove_node", "add_subtree", "update_settings",
                    "load", "initialize_network"}
    /\ last.status = "success"

\* C38: after every completed add_node, remove_node, add_subtree_from_data,
\* update_settings and load the cached max_depth is the greatest depth field
\* of the nodes, and 0 where the network is empty, as after the removal of the
\* last node.
C38_MaxDepthIsTheGreatestDepth ==
    CompletedMutationOrLoad => max_depth = GreatestDepth


-----------------------------------------------------------------------------
(* BusinessNetwork.from_json and the import of a whole network *)

\* float(node_data["value"]) for the values the documents hold: they are
\* numbers, and float gives the number itself.
float_of_number(value) == value

\* Lines 590-612: the defaults of load, and the value as a float.
from_json_node(node_id, node_data, threshold) ==
    [load_node(node_id, node_data, threshold) EXCEPT !.value = float_of_number(@)]

\* from_json (lines 574-640) on the text of an upload.  json.loads raises on a
\* text that is no document; data.get raises on a document that is no dict and
\* settings.get on settings that are none, which the last handler turns into
\* ValueError; "nodes" and "graph" must be dicts; an entry of "nodes" that is
\* no dict is passed over (line 590).  The documents here hold "nodes" and
\* "graph", empty or not.
from_json(content) ==
    IF content.kind # "json" THEN Raised(EmptyNetwork, "Invalid JSON data provided")
    ELSE LET data == content.data
         IN  IF ~isinstance_dict(data)
             THEN Raised(EmptyNetwork, "Failed to create network from JSON")
             ELSE IF ~isinstance_dict(data.nodes) \/ ~isinstance_dict(data.graph)
             THEN Raised(EmptyNetwork, "Invalid JSON structure: Missing 'nodes' or 'graph'")
             ELSE IF ~isinstance_dict(data.settings)
             THEN Raised(EmptyNetwork, "Failed to create network from JSON")
             ELSE LET threshold == Max(1, Get(data.settings, "min_children_threshold",
                                              DEFAULT_THRESHOLD))
                      kept == SelectSeq(data.keys, LAMBDA k : isinstance_dict(data.nodes[k]))
                      nds == [k \in Range(kept) |->
                                 from_json_node(k, data.nodes[k], threshold)]
                      g == [k \in DOMAIN nds |->
                               IF k \in DOMAIN data.graph
                               THEN load_edges(nds, data.graph[k]) ELSE <<>>]
                  IN  Returned(_update_metrics(Network(kept, nds, g, threshold, 0)), None)

\* The uploads: a text that is no document, a document that is no dict, and
\* the documents load is run on.
Uploads == {Truncated, json_dump(JsonScalar)} \cup {json_dump(d) : d \in LoadDocuments}

ContentTypes == {"application/json", "text/plain"}

\* main.import_network (lines 204-253) with logic.reload_network_from_file
\* (logic.py:279-291): the upload is validated with from_json, written over
\* network.json by way of a temporary file, and the network is loaded from
\* the file.  load raises nothing, so the reload reports success.  last.ret
\* is the network the validation built.
ImportNetwork(content_type, content, io_ok) ==
    LET validated == from_json(content)
        call == [NoCall EXCEPT !.op = "import_network"]
    IN  /\ IF content_type # "application/json"
           THEN /\ set_network(network)
                /\ file' = file
                /\ last' = [call EXCEPT !.status = "error", !.error = "Invalid file type"]
           ELSE IF ~validated.ok
           THEN /\ set_network(network)
                /\ file' = file
                /\ last' = [call EXCEPT !.status = "error",
                                        !.error = "Invalid network file content"]
           ELSE IF ~io_ok
           THEN /\ set_network(network)
                /\ file' = file
                /\ last' = [call EXCEPT !.status = "error",
                                        !.error = "An unexpected error occurred during import"]
           ELSE /\ set_network(load(content))
                /\ file' = content
                /\ last' = [call EXCEPT !.status = "success", !.ret = validated.net]
        /\ steps' = steps
        /\ saving' = saving

WholeImportInit ==
    /\ \E net \in {EmptyNetwork, RootAndChild} :
          /\ node_keys = net.keys
          /\ nodes = net.nodes
          /\ graph = net.graph
          /\ min_children_threshold = net.threshold
          /\ max_depth = net.max_depth
          /\ file = json_dump(get_network_data(net))
    /\ last = NoCall
    /\ steps = 0
    /\ saving = Idle

WholeImportNext ==
    \E content_type \in ContentTypes, content \in Uploads, io_ok \in SaveOutcomes :
       ImportNetwork(content_type, content, io_ok)

WholeImportSpec == WholeImportInit /\ [][WholeImportNext]_vars

ImportReportedSuccess == last.op = "import_network" /\ last.status = "success"

\* C39: from_json and load agree: for every document from_json accepts, load
\* of a file that holds it returns a network with the same nodes, parents,
\* values, edges, threshold and metrics; so an import of a whole network that
\* passed the validation and reported success leaves the application with the
\* network that was validated, never an empty or another one.
C39_ImportLeavesTheValidatedNetwork ==
    ImportReportedSuccess => network = last.ret

\* The same for the documents whose "nodes" entries are all dicts.
C39_ImportOfNodeRecordsLeavesTheValidatedNetwork ==
    (ImportReportedSuccess
        /\ \A k \in DOMAIN file.data.nodes : isinstance_dict(file.data.nodes[k]))
    => network = last.ret

=============================================================================
